---- MODULE Spec2Model ----
(***************************************************************************)
(* Model of the MCP server template: the in-memory record store            *)
(* (InMemoryDataService), the protocol dispatcher (MCPServer) with its     *)
(* runtime tool registration, and the envelope / validation utilities.     *)
(*                                                                         *)
(* Representation.  A JavaScript string is a sequence of string atoms      *)
(* (single characters, or an opaque chunk for a literal of the source), so *)
(* that template literals are concatenations and "contains" is computable. *)
(* A JavaScript value is a record [t, v]: t is its type tag and v its      *)
(* String(...) form; objects carry their property map in o, arrays their   *)
(* elements in a.  A JavaScript object is a function from property names.  *)
(* A JavaScript Map is the sequence of its entries in insertion order.     *)
(***************************************************************************)
EXTENDS Integers, Sequences, FiniteSets, TLC

VARIABLES
    resources,        \* InMemoryDataService.resources : Map<uri, Resource>
    data,             \* InMemoryDataService.data : Map<uri, Map<id, record>>
    uuidCount,        \* number of identifiers uuidv4() has generated
    now,              \* the wall clock read by new Date()
    handleListTools,  \* MCPServer instance property: the list wrappers, oldest first
    handleCallTool,   \* MCPServer instance property: the call wrappers, oldest first
    requestHandlers,  \* what Server.setRequestHandler stored at construction
    inflight,         \* call-tool requests received and not yet answered, by arrival
    response          \* outcome of the last operation

vars == <<resources, data, uuidCount, now, handleListTools, handleCallTool,
          requestHandlers, inflight, response>>

(***************************************************************************)
(* Bounds of the model.                                                    *)
(***************************************************************************)
MaxUuid == 2
MaxClock == 1
MaxTools == 2
MaxRecords == 2
MaxHandlers == 1
MaxCalls == 2
MaxCatalog == 3

\* the default that the descriptions of the input schemas give for maxRecords
DefaultMaxRecords == 100

(***************************************************************************)
(* JavaScript values.                                                      *)
(***************************************************************************)
Str(s) == [t |-> "string", v |-> s]
\* decimal digits of a natural number, one atom per digit
RECURSIVE digitsOf(_)
digitsOf(n) == IF n < 10 THEN <<ToString(n)>> ELSE digitsOf(n \div 10) \o <<ToString(n % 10)>>
Num(n) == [t |-> "number", v |-> IF n < 0 THEN <<"-">> \o digitsOf(0 - n) ELSE digitsOf(n), n |-> n]
BigInt(n) == [t |-> "bigint", v |-> digitsOf(n)]
\* String(true) = "true", String(false) = "false"
Bool(b) == [t |-> "boolean", v |-> IF b THEN <<"t", "r", "u", "e">> ELSE <<"f", "a", "l", "s", "e">>]
Null == [t |-> "null", v |-> <<"null">>]
Undefined == [t |-> "undefined", v |-> <<"undefined">>]
Obj(o) == [t |-> "object", v |-> <<"[object Object]">>, o |-> o]
Arr(a) == [t |-> "array", v |-> <<"[array]">>, a |-> a]
EmptyObject == [f \in {} |-> Undefined]

\* obj.f : a missing property reads as undefined
Prop(obj, f) == IF f \in DOMAIN obj THEN obj[f] ELSE Undefined

\* ToBoolean, as used by `||`
Truthy(x) ==
    CASE x.t = "string" -> x.v # <<>>
      [] x.t = "number" -> x.n # 0
      [] x.t = "boolean" -> x.v = <<"t", "r", "u", "e">>
      [] x.t \in {"null", "undefined"} -> FALSE
      [] OTHER -> TRUE

\* a === b : primitives by type and value, objects and arrays by identity
\* (two values built separately are never the same object)
StrictEquals(a, b) == a.t = b.t /\ a.t \notin {"object", "array"} /\ a.v = b.v

\* { ...a, ...b } : properties of b win
Spread(a, b) == b @@ a

\* s.includes(sub) on sequences of atoms
Includes(s, sub) ==
    \E i \in 0..(Len(s) - Len(sub)) : SubSeq(s, i + 1, i + Len(sub)) = sub

(***************************************************************************)
(* JavaScript Map: entries [k, v] in insertion order.                      *)
(***************************************************************************)
EmptyMap == <<>>
MapHas(m, k) == \E i \in 1..Len(m) : m[i].k = k
MapIndex(m, k) == CHOOSE i \in 1..Len(m) : m[i].k = k
MapGet(m, k) == m[MapIndex(m, k)].v
MapSet(m, k, val) ==
    IF MapHas(m, k)
    THEN [m EXCEPT ![MapIndex(m, k)] = [k |-> k, v |-> val]]
    ELSE Append(m, [k |-> k, v |-> val])
MapDelete(m, k) ==
    IF MapHas(m, k)
    THEN SubSeq(m, 1, MapIndex(m, k) - 1) \o SubSeq(m, MapIndex(m, k) + 1, Len(m))
    ELSE m
MapKeys(m) == [i \in 1..Len(m) |-> m[i].k]
MapValues(m) == [i \in 1..Len(m) |-> m[i].v]

(***************************************************************************)
(* Errors and the outcome of a call: either a returned value or a thrown   *)
(* value, together with the store the call leaves behind.                  *)
(***************************************************************************)
Error(message) == [t |-> "error", v |-> <<"Error: ">> \o message, message |-> message]

Store == [resources |-> resources, data |-> data, uuidCount |-> uuidCount]
Return(val, st) == [threw |-> FALSE, value |-> val, store |-> st]
Throw(err, st) == [threw |-> TRUE, value |-> err, store |-> st]

\* new Date().toISOString()
Timestamp == Str(<<"T", ToString(now)>>)
\* uuidv4(): the n-th generated identifier
Uuid(n) == Str(<<"u", "u", "i", "d", ToString(n)>>)

(***************************************************************************)
(* InMemoryDataService                                                     *)
(***************************************************************************)
resourcePrefix == <<"m", "c", "p", ":", "/", "/">>

LowerCase == <<"a", "b", "c", "d", "e", "f", "g", "h", "i", "j", "k", "l", "m",
               "n", "o", "p", "q", "r", "s", "t", "u", "v", "w", "x", "y", "z">>
UpperCase == <<"A", "B", "C", "D", "E", "F", "G", "H", "I", "J", "K", "L", "M",
               "N", "O", "P", "Q", "R", "S", "T", "U", "V", "W", "X", "Y", "Z">>
Digits == {"0", "1", "2", "3", "4", "5", "6", "7", "8", "9"}

\* String.prototype.toLowerCase, per character
toLowerCase(s) ==
    [i \in 1..Len(s) |->
        IF \E j \in 1..26 : UpperCase[j] = s[i]
        THEN LowerCase[CHOOSE j \in 1..26 : UpperCase[j] = s[i]]
        ELSE s[i]]

\* .replace(/[^a-z0-9]/g, '-') : every single non-matching character
replaceNonAlnum(s) ==
    [i \in 1..Len(s) |->
        IF (\E j \in 1..26 : LowerCase[j] = s[i]) \/ s[i] \in Digits
        THEN s[i] ELSE "-"]

deriveUri(name) == resourcePrefix \o replaceNonAlnum(toLowerCase(name))

\* registerResource that removes an earlier entry of the URI before it adds
\* the new one
registerResource_reinserts(st, name, description) ==
    LET uri == deriveUri(name)
        resource == [uri |-> uri, name |-> name, description |-> description]
    IN Return(resource,
              [st EXCEPT !.resources = MapSet(MapDelete(st.resources, uri), uri, resource),
                         !.data = MapSet(MapDelete(st.data, uri), uri, EmptyMap)])

\* registerResource that keeps the record collection of a URI it already has
registerResource_keepsRecords(st, name, description) ==
    LET uri == deriveUri(name)
        resource == [uri |-> uri, name |-> name, description |-> description]
    IN Return(resource,
              [st EXCEPT !.resources = MapSet(st.resources, uri, resource),
                         !.data = IF MapHas(st.data, uri) THEN st.data
                                  ELSE MapSet(st.data, uri, EmptyMap)])

\* registerResource that stores the metadata and opens no record collection
registerResource_metadataOnly(st, name, description) ==
    LET uri == deriveUri(name)
        resource == [uri |-> uri, name |-> name, description |-> description]
    IN Return(resource, [st EXCEPT !.resources = MapSet(st.resources, uri, resource)])

\* registerResource(name, description)
registerResource(st, name, description) ==
    LET uri == deriveUri(name)
        resource == [uri |-> uri, name |-> name, description |-> description]
    IN Return(resource,
              [st EXCEPT !.resources = MapSet(st.resources, uri, resource),
                         !.data = MapSet(st.data, uri, EmptyMap)])

\* validateResource(uri): the error it throws, when it throws
resourceMissing(st, uri) == ~MapHas(st.resources, uri)
ResourceNotFound(uri) == Error(<<"Resource not found: ">> \o uri)
RecordNotFound(id) == Error(<<"Record not found: ">> \o id.v)

\* listResources()
listResources(st) == Return(MapValues(st.resources), st)

\* getResource(uri)
getResource(st, uri) ==
    IF ~MapHas(st.resources, uri)
    THEN Throw(ResourceNotFound(uri), st)
    ELSE Return(MapGet(st.resources, uri), st)

\* createRecord that opens a collection for a URI it does not know
createRecord_autoCreate(st, uri, d) ==
    LET generated == ~Truthy(Prop(d, "id"))
        id == IF generated THEN Uuid(st.uuidCount + 1) ELSE Prop(d, "id")
        record == Spread(Spread([id |-> id], d),
                         [createdAt |-> Timestamp, updatedAt |-> Timestamp])
        collection == IF MapHas(st.data, uri) THEN MapGet(st.data, uri) ELSE EmptyMap
    IN Return(record,
              [st EXCEPT !.data = MapSet(st.data, uri, MapSet(collection, id, record)),
                         !.uuidCount = IF generated THEN @ + 1 ELSE @])

\* createRecord whose generated id is the same every time
createRecord_sameId(st, uri, d) ==
    IF resourceMissing(st, uri) THEN Throw(ResourceNotFound(uri), st)
    ELSE
      LET generated == ~Truthy(Prop(d, "id"))
          id == IF generated THEN Uuid(1) ELSE Prop(d, "id")
          record == Spread(Spread([id |-> id], d),
                           [createdAt |-> Timestamp, updatedAt |-> Timestamp])
      IN Return(record,
                [st EXCEPT !.data = MapSet(st.data, uri,
                                           MapSet(MapGet(st.data, uri), id, record)),
                           !.uuidCount = IF generated THEN @ + 1 ELSE @])

\* createRecord(uri, data)
createRecord(st, uri, d) ==
    IF resourceMissing(st, uri) THEN Throw(ResourceNotFound(uri), st)
    ELSE
      LET generated == ~Truthy(Prop(d, "id"))
          id == IF generated THEN Uuid(st.uuidCount + 1) ELSE Prop(d, "id")
          record == Spread(Spread([id |-> id], d),
                           [createdAt |-> Timestamp, updatedAt |-> Timestamp])
      IN Return(record,
                [st EXCEPT !.data = MapSet(st.data, uri,
                                           MapSet(MapGet(st.data, uri), id, record)),
                           !.uuidCount = IF generated THEN @ + 1 ELSE @])

\* updateRecord that stores the data when the id is not there
updateRecord_upsert(st, uri, id, d) ==
    IF resourceMissing(st, uri) THEN Throw(ResourceNotFound(uri), st)
    ELSE
      LET resourceData == MapGet(st.data, uri)
          existingRecord == IF MapHas(resourceData, id) THEN MapGet(resourceData, id)
                            ELSE EmptyObject
          updatedRecord == Spread(Spread(existingRecord, d),
                                  [id |-> id, updatedAt |-> Timestamp])
      IN Return(updatedRecord,
                [st EXCEPT !.data = MapSet(st.data, uri,
                                           MapSet(resourceData, id, updatedRecord))])

\* updateRecord that lets the id of the data replace the id of the record
updateRecord_idFromData(st, uri, id, d) ==
    IF resourceMissing(st, uri) THEN Throw(ResourceNotFound(uri), st)
    ELSE
      LET resourceData == MapGet(st.data, uri)
      IN IF ~MapHas(resourceData, id) THEN Throw(RecordNotFound(id), st)
         ELSE
           LET existingRecord == MapGet(resourceData, id)
               updatedRecord == Spread(Spread(existingRecord, [id |-> id]),
                                       Spread(d, [updatedAt |-> Timestamp]))
           IN Return(updatedRecord,
                     [st EXCEPT !.data = MapSet(st.data, uri,
                                                MapSet(resourceData, id, updatedRecord))])

\* updateRecord that stores the data in place of the record it found
updateRecord_replace(st, uri, id, d) ==
    IF resourceMissing(st, uri) THEN Throw(ResourceNotFound(uri), st)
    ELSE
      LET resourceData == MapGet(st.data, uri)
      IN IF ~MapHas(resourceData, id) THEN Throw(RecordNotFound(id), st)
         ELSE
           LET updatedRecord == Spread(d, [id |-> id, updatedAt |-> Timestamp])
           IN Return(updatedRecord,
                     [st EXCEPT !.data = MapSet(st.data, uri,
                                                MapSet(resourceData, id, updatedRecord))])

\* updateRecord(uri, id, data)
updateRecord(st, uri, id, d) ==
    IF resourceMissing(st, uri) THEN Throw(ResourceNotFound(uri), st)
    ELSE
      LET resourceData == MapGet(st.data, uri)
      IN IF ~MapHas(resourceData, id) THEN Throw(RecordNotFound(id), st)
         ELSE
           LET existingRecord == MapGet(resourceData, id)
               updatedRecord == Spread(Spread(existingRecord, d),
                                       [id |-> id, updatedAt |-> Timestamp])
           IN Return(updatedRecord,
                     [st EXCEPT !.data = MapSet(st.data, uri,
                                                MapSet(resourceData, id, updatedRecord))])

\* deleteRecord that reports a missing record as false instead of failing
deleteRecord_quiet(st, uri, id) ==
    IF resourceMissing(st, uri) THEN Throw(ResourceNotFound(uri), st)
    ELSE
      LET resourceData == MapGet(st.data, uri)
      IN Return(Bool(MapHas(resourceData, id)),
                [st EXCEPT !.data = MapSet(st.data, uri, MapDelete(resourceData, id))])

\* deleteRecord that removes the id from the collection of every resource
deleteRecord_everywhere(st, uri, id) ==
    IF resourceMissing(st, uri) THEN Throw(ResourceNotFound(uri), st)
    ELSE
      LET resourceData == MapGet(st.data, uri)
      IN IF ~MapHas(resourceData, id) THEN Throw(RecordNotFound(id), st)
         ELSE Return(Bool(TRUE),
                     [st EXCEPT !.data = [i \in 1..Len(st.data) |->
                                            [k |-> st.data[i].k, v |-> MapDelete(st.data[i].v, id)]]])

\* deleteRecord(uri, id)
deleteRecord(st, uri, id) ==
    IF resourceMissing(st, uri) THEN Throw(ResourceNotFound(uri), st)
    ELSE
      LET resourceData == MapGet(st.data, uri)
      IN IF ~MapHas(resourceData, id) THEN Throw(RecordNotFound(id), st)
         ELSE Return(Bool(TRUE),
                     [st EXCEPT !.data = MapSet(st.data, uri, MapDelete(resourceData, id))])

\* seedData(uri, records): the loop over the records, one record after the
\* other (a list of several records is seeded as its first half, then its
\* second half), on the collection of the resource that seedData validated
RECURSIVE seedLoop(_, _, _)
seedLoop(st, uri, records) ==
    IF resourceMissing(st, uri) \/ records = <<>> THEN st
    ELSE IF Len(records) = 1
    THEN
      LET record == Head(records)
          generated == ~Truthy(Prop(record, "id"))
          id == IF generated THEN Uuid(st.uuidCount + 1) ELSE Prop(record, "id")
          stored == Spread(Spread([id |-> id], record),
                           [createdAt |-> Timestamp, updatedAt |-> Timestamp])
      IN [st EXCEPT !.data = MapSet(st.data, uri,
                                    MapSet(MapGet(st.data, uri), id, stored)),
                    !.uuidCount = IF generated THEN @ + 1 ELSE @]
    ELSE seedLoop(seedLoop(st, uri, SubSeq(records, 1, Len(records) \div 2)),
                  uri, SubSeq(records, Len(records) \div 2 + 1, Len(records)))

seedData(st, uri, records) ==
    IF resourceMissing(st, uri) THEN Throw(ResourceNotFound(uri), st)
    ELSE Return(Undefined, seedLoop(st, uri, records))

(***************************************************************************)
(* queryResource: search, filter, sort, limit                              *)
(***************************************************************************)
\* property name denoted by a string value (names are single atoms)
nameOf(x) == IF x.t = "string" /\ Len(x.v) = 1 THEN x.v[1] ELSE "?"

\* the search stage comparing the text as it is written
searchMatches_caseSensitive(record, query) ==
    LET searchTerm == Prop(query, "searchTerm").v
        fields == IF Prop(query, "fields").t = "array" THEN Prop(query, "fields").a ELSE <<>>
        noFields == Prop(query, "fields").t # "array"
        eligible(key) == noFields \/ \E i \in 1..Len(fields) : nameOf(fields[i]) = key
    IN \E key \in DOMAIN record :
          /\ eligible(key)
          /\ record[key].t \in {"string", "number", "boolean"}
          /\ Includes(record[key].v, searchTerm)

\* the predicate of the search stage
searchMatches(record, query) ==
    LET searchTerm == toLowerCase(Prop(query, "searchTerm").v)
        fields == IF Prop(query, "fields").t = "array" THEN Prop(query, "fields").a ELSE <<>>
        noFields == Prop(query, "fields").t # "array"
        eligible(key) == noFields \/ \E i \in 1..Len(fields) : nameOf(fields[i]) = key
    IN \E key \in DOMAIN record :
          /\ eligible(key)
          /\ record[key].t \in {"string", "number", "boolean"}
          /\ Includes(toLowerCase(record[key].v), searchTerm)

\* the filter stage comparing with ==, which converts between types
filterMatches_loose(record, query) ==
    LET filter == Prop(query, "filter").o
    IN \A key \in DOMAIN filter :
          /\ Prop(record, key).t \notin {"object", "array"}
          /\ Prop(record, key).v = filter[key].v

\* the predicate of the filter stage
filterMatches(record, query) ==
    LET arg == Prop(query, "filter")
        \* Object.entries: the properties of an object, the indices of an array
        filter == IF arg.t = "array"
                  THEN [k \in {ToString(i - 1) : i \in 1..Len(arg.a)} |->
                          arg.a[CHOOSE i \in 1..Len(arg.a) : ToString(i - 1) = k]]
                  ELSE arg.o
    IN \A key \in DOMAIN filter : StrictEquals(Prop(record, key), filter[key])

\* String.prototype.localeCompare: letters compare without case first
\* (digits and punctuation before letters), then lower case before upper case
Collation == <<"-", "_", "0", "1", "2", "3", "4", "5", "6", "7", "8", "9">> \o LowerCase
weight(c) == IF \E j \in 1..Len(Collation) : Collation[j] = c
             THEN CHOOSE j \in 1..Len(Collation) : Collation[j] = c
             ELSE 0
RECURSIVE comparePrimary(_, _)
comparePrimary(a, b) ==
    IF a = <<>> /\ b = <<>> THEN 0
    ELSE IF a = <<>> THEN -1
    ELSE IF b = <<>> THEN 1
    ELSE IF weight(Head(a)) < weight(Head(b)) THEN -1
    ELSE IF weight(Head(a)) > weight(Head(b)) THEN 1
    ELSE comparePrimary(Tail(a), Tail(b))
RECURSIVE compareCase(_, _)
compareCase(a, b) ==
    IF a = <<>> \/ b = <<>> THEN 0
    ELSE IF Head(a) = Head(b) THEN compareCase(Tail(a), Tail(b))
    ELSE IF toLowerCase(<<Head(a)>>) = <<Head(a)>> THEN -1 ELSE 1
localeCompare(a, b) ==
    IF comparePrimary(toLowerCase(a), toLowerCase(b)) # 0
    THEN comparePrimary(toLowerCase(a), toLowerCase(b))
    ELSE compareCase(a, b)

\* the comparator without its direction: every spec sorts ascending
RECURSIVE sortComparator_alwaysAscending(_, _, _)
sortComparator_alwaysAscending(a, b, sort) ==
    IF sort = <<>> THEN 0
    ELSE
      LET sortItem == Head(sort).o
          field == nameOf(Prop(sortItem, "field"))
          aValue == Prop(a, field)
          bValue == Prop(b, field)
      IN IF StrictEquals(aValue, bValue) THEN sortComparator_alwaysAscending(a, b, Tail(sort))
         ELSE IF aValue.t = "undefined" THEN -1
         ELSE IF bValue.t = "undefined" THEN 1
         ELSE localeCompare(aValue.v, bValue.v)

\* the comparator that puts a missing value first in either direction
RECURSIVE sortComparator_missingFirst(_, _, _)
sortComparator_missingFirst(a, b, sort) ==
    IF sort = <<>> THEN 0
    ELSE
      LET sortItem == Head(sort).o
          field == nameOf(Prop(sortItem, "field"))
          direction == IF Prop(sortItem, "direction").t = "undefined"
                       THEN <<"asc">> ELSE Prop(sortItem, "direction").v
          aValue == Prop(a, field)
          bValue == Prop(b, field)
          comparison == localeCompare(aValue.v, bValue.v)
      IN IF StrictEquals(aValue, bValue) THEN sortComparator_missingFirst(a, b, Tail(sort))
         ELSE IF aValue.t = "undefined" THEN -1
         ELSE IF bValue.t = "undefined" THEN 1
         ELSE IF direction = <<"asc">> THEN comparison ELSE 0 - comparison

\* the comparator handed to Array.prototype.sort
RECURSIVE sortComparator(_, _, _)
sortComparator(a, b, sort) ==
    IF sort = <<>> THEN 0
    ELSE
      LET sortItem == Head(sort).o
          field == nameOf(Prop(sortItem, "field"))
          direction == IF Prop(sortItem, "direction").t = "undefined"
                       THEN <<"asc">> ELSE Prop(sortItem, "direction").v
          aValue == Prop(a, field)
          bValue == Prop(b, field)
          comparison == localeCompare(aValue.v, bValue.v)
      IN IF StrictEquals(aValue, bValue) THEN sortComparator(a, b, Tail(sort))
         ELSE IF aValue.t = "undefined" THEN (IF direction = <<"asc">> THEN -1 ELSE 1)
         ELSE IF bValue.t = "undefined" THEN (IF direction = <<"asc">> THEN 1 ELSE -1)
         ELSE IF direction = <<"asc">> THEN comparison ELSE 0 - comparison

\* a sort that places a record before the records it compares equal to
RECURSIVE insertSorted_beforeEquals(_, _, _)
insertSorted_beforeEquals(sorted, r, sort) ==
    IF sorted = <<>> THEN <<r>>
    ELSE IF sortComparator(sorted[Len(sorted)], r, sort) >= 0
         THEN Append(insertSorted_beforeEquals(SubSeq(sorted, 1, Len(sorted) - 1), r, sort),
                     sorted[Len(sorted)])
         ELSE Append(sorted, r)

\* Array.prototype.sort: stable; insertion into the sorted prefix
RECURSIVE insertSorted(_, _, _)
insertSorted(sorted, r, sort) ==
    IF sorted = <<>> THEN <<r>>
    ELSE IF sortComparator(sorted[Len(sorted)], r, sort) > 0
         THEN Append(insertSorted(SubSeq(sorted, 1, Len(sorted) - 1), r, sort),
                     sorted[Len(sorted)])
         ELSE Append(sorted, r)
RECURSIVE sortRecords(_, _)
sortRecords(records, sort) ==
    IF records = <<>> THEN <<>>
    ELSE insertSorted(sortRecords(SubSeq(records, 1, Len(records) - 1), sort),
                      records[Len(records)], sort)

\* queryResource that cuts to maxRecords before it sorts
queryResource_limitFirst(st, uri, query) ==
    IF resourceMissing(st, uri) THEN Throw(ResourceNotFound(uri), st)
    ELSE
      LET all == MapValues(MapGet(st.data, uri))
          searched == IF Prop(query, "searchTerm").t = "string" /\ Truthy(Prop(query, "searchTerm"))
                      THEN SelectSeq(all, LAMBDA record : searchMatches(record, query)) ELSE all
          filtered == IF Truthy(Prop(query, "filter")) /\ Prop(query, "filter").t \in {"object", "array"}
                      THEN SelectSeq(searched, LAMBDA record : filterMatches(record, query)) ELSE searched
          limited == IF Prop(query, "maxRecords").t = "number" /\ Prop(query, "maxRecords").n > 0
                     THEN SubSeq(filtered, 1, IF Prop(query, "maxRecords").n < Len(filtered)
                                              THEN Prop(query, "maxRecords").n ELSE Len(filtered))
                     ELSE filtered
          sorted == IF Prop(query, "sort").t = "array" /\ Len(Prop(query, "sort").a) > 0
                    THEN sortRecords(limited, Prop(query, "sort").a) ELSE limited
      IN Return(Arr([i \in 1..Len(sorted) |-> Obj(sorted[i])]), st)

\* queryResource that hands the records back last to first
queryResource_reversed(st, uri, query) ==
    IF resourceMissing(st, uri) THEN Throw(ResourceNotFound(uri), st)
    ELSE
      LET all == MapValues(MapGet(st.data, uri))
          searched == IF Prop(query, "searchTerm").t = "string" /\ Truthy(Prop(query, "searchTerm"))
                      THEN SelectSeq(all, LAMBDA record : searchMatches(record, query)) ELSE all
          filtered == IF Truthy(Prop(query, "filter")) /\ Prop(query, "filter").t \in {"object", "array"}
                      THEN SelectSeq(searched, LAMBDA record : filterMatches(record, query)) ELSE searched
          sorted == IF Prop(query, "sort").t = "array" /\ Len(Prop(query, "sort").a) > 0
                    THEN sortRecords(filtered, Prop(query, "sort").a) ELSE filtered
      IN Return(Arr([i \in 1..Len(sorted) |-> Obj(sorted[Len(sorted) + 1 - i])]), st)

\* queryResource that sorts the stored collection itself
queryResource_sortsInPlace(st, uri, query) ==
    IF resourceMissing(st, uri) THEN Throw(ResourceNotFound(uri), st)
    ELSE
      LET sorting == Prop(query, "sort").t = "array" /\ Len(Prop(query, "sort").a) > 0
          stored == MapValues(MapGet(st.data, uri))
          all == IF sorting THEN sortRecords(stored, Prop(query, "sort").a) ELSE stored
          searched == IF Prop(query, "searchTerm").t = "string" /\ Truthy(Prop(query, "searchTerm"))
                      THEN SelectSeq(all, LAMBDA record : searchMatches(record, query)) ELSE all
          filtered == IF Truthy(Prop(query, "filter")) /\ Prop(query, "filter").t \in {"object", "array"}
                      THEN SelectSeq(searched, LAMBDA record : filterMatches(record, query)) ELSE searched
          limited == IF Prop(query, "maxRecords").t = "number" /\ Prop(query, "maxRecords").n > 0
                     THEN SubSeq(filtered, 1, IF Prop(query, "maxRecords").n < Len(filtered)
                                              THEN Prop(query, "maxRecords").n ELSE Len(filtered))
                     ELSE filtered
      IN Return(Arr([i \in 1..Len(limited) |-> Obj(limited[i])]),
                [st EXCEPT !.data = MapSet(st.data, uri,
                                           [i \in 1..Len(all) |-> [k |-> all[i].id, v |-> all[i]]])])

\* queryResource(uri, query)
queryResource(st, uri, query) ==
    IF resourceMissing(st, uri) THEN Throw(ResourceNotFound(uri), st)
    ELSE
      LET all == MapValues(MapGet(st.data, uri))
          searched == IF Prop(query, "searchTerm").t = "string" /\ Truthy(Prop(query, "searchTerm"))
                      THEN SelectSeq(all, LAMBDA record : searchMatches(record, query)) ELSE all
          filtered == IF Truthy(Prop(query, "filter")) /\ Prop(query, "filter").t \in {"object", "array"}
                      THEN SelectSeq(searched, LAMBDA record : filterMatches(record, query)) ELSE searched
          sorted == IF Prop(query, "sort").t = "array" /\ Len(Prop(query, "sort").a) > 0
                    THEN sortRecords(filtered, Prop(query, "sort").a) ELSE filtered
          limited == IF Prop(query, "maxRecords").t = "number" /\ Prop(query, "maxRecords").n > 0
                     THEN SubSeq(sorted, 1, IF Prop(query, "maxRecords").n < Len(sorted)
                                            THEN Prop(query, "maxRecords").n ELSE Len(sorted))
                     ELSE sorted
      IN Return(Arr([i \in 1..Len(limited) |-> Obj(limited[i])]), st)

(***************************************************************************)
(* zod schemas, as far as the tools use them                               *)
(***************************************************************************)
ZString == [z |-> "string"]
ZNumber == [z |-> "number"]
ZUnknown == [z |-> "unknown"]
ZRecord == [z |-> "record"]
ZEnum(values) == [z |-> "enum", values |-> values]
ZArray(elem) == [z |-> "array", elem |-> elem]
ZObject(shape) == [z |-> "object", shape |-> shape]
Field(name, type, description) ==
    [name |-> name, type |-> type, optional |-> FALSE, description |-> description]
Optional(name, type, description) ==
    [name |-> name, type |-> type, optional |-> TRUE, description |-> description]

ListRecordsArgsSchema == ZObject(<<
    Field("resourceUri", ZString, <<"URI of the resource to query">>),
    Optional("maxRecords", ZNumber, <<"Maximum number of records to return. Defaults to 100.">>),
    Optional("filter", ZRecord, <<"Filter criteria">>),
    Optional("sort", ZArray(ZObject(<<
        Field("field", ZString, <<"Field name to sort by">>),
        Optional("direction", ZEnum(<<"asc", "desc">>),
                 <<"Sort direction. Defaults to asc (ascending)">>)>>)),
             <<"Specifies how to sort the records">>)>>)
GetRecordArgsSchema == ZObject(<<
    Field("resourceUri", ZString, <<"URI of the resource">>),
    Field("recordId", ZString, <<"ID of the record to retrieve">>)>>)
CreateRecordArgsSchema == ZObject(<<
    Field("resourceUri", ZString, <<"URI of the resource">>),
    Field("data", ZRecord, <<"Record data to create">>)>>)
UpdateRecordArgsSchema == ZObject(<<
    Field("resourceUri", ZString, <<"URI of the resource">>),
    Field("recordId", ZString, <<"ID of the record to update">>),
    Field("data", ZRecord, <<"New record data">>)>>)
DeleteRecordArgsSchema == ZObject(<<
    Field("resourceUri", ZString, <<"URI of the resource">>),
    Field("recordId", ZString, <<"ID of the record to delete">>)>>)
SearchRecordsArgsSchema == ZObject(<<
    Field("resourceUri", ZString, <<"URI of the resource">>),
    Field("searchTerm", ZString, <<"Text to search for in records">>),
    Optional("fields", ZArray(ZString),
             <<"Specific fields to search in. If not provided, searches all text fields.">>),
    Optional("maxRecords", ZNumber, <<"Maximum number of records to return. Defaults to 100.">>)>>)
ActivateUserArgsSchema == ZObject(<<
    Field("resourceUri", ZString, <<"URI of the user resource">>),
    Field("userId", ZString, <<"ID of the user to activate">>)>>)

\* one issue of a ZodError
Issue(path, message) == [path |-> path, message |-> message]
invalidType(expected, x, path) ==
    <<Issue(path, IF x.t = "undefined" THEN <<"Required">>
                  ELSE <<"Expected ">> \o expected \o <<", received ", x.t>>)>>
enumList(values) ==
    IF Len(values) = 2 THEN <<"'", values[1], "' | '", values[2], "'">> ELSE <<"'", values[1], "'">>

\* schema.parse(data): the issues it collects, every field of an object and
\* every element of an array being visited
RECURSIVE zodIssues(_, _, _)
RECURSIVE zodShapeIssues(_, _, _)
RECURSIVE zodElemIssues(_, _, _, _)
zodIssues(type, x, path) ==
    CASE type.z = "unknown" -> <<>>
      [] type.z = "string" -> IF x.t = "string" THEN <<>> ELSE invalidType(<<"string">>, x, path)
      [] type.z = "number" -> IF x.t = "number" THEN <<>> ELSE invalidType(<<"number">>, x, path)
      [] type.z = "record" -> IF x.t = "object" THEN <<>> ELSE invalidType(<<"object">>, x, path)
      [] type.z = "enum" ->
           IF x.t # "string" THEN invalidType(enumList(type.values), x, path)
           ELSE IF \E i \in 1..Len(type.values) : x.v = <<type.values[i]>> THEN <<>>
           ELSE <<Issue(path, <<"Invalid enum value. Expected ">> \o enumList(type.values)
                               \o <<", received '">> \o x.v \o <<"'">>)>>
      [] type.z = "array" ->
           IF x.t # "array" THEN invalidType(<<"array">>, x, path)
           ELSE zodElemIssues(type.elem, x.a, 1, path)
      [] type.z = "object" ->
           IF x.t # "object" THEN invalidType(<<"object">>, x, path)
           ELSE zodShapeIssues(type.shape, x.o, path)
zodShapeIssues(shape, o, path) ==
    IF shape = <<>> THEN <<>>
    ELSE LET f == Head(shape)
             val == Prop(o, f.name)
         IN (IF f.optional /\ val.t = "undefined" THEN <<>>
             ELSE zodIssues(f.type, val, Append(path, f.name)))
            \o zodShapeIssues(Tail(shape), o, path)
zodElemIssues(elem, a, i, path) ==
    IF i > Len(a) THEN <<>>
    ELSE zodIssues(elem, a[i], Append(path, ToString(i - 1)))
         \o zodElemIssues(elem, a, i + 1, path)

\* schema.parse(data): the value it returns; an object keeps only the keys
\* of its shape
RECURSIVE zodOutput(_, _)
zodOutput(type, x) ==
    CASE type.z = "array" /\ x.t = "array" ->
           Arr([i \in 1..Len(x.a) |-> zodOutput(type.elem, x.a[i])])
      [] type.z = "object" /\ x.t = "object" ->
           LET kept == {type.shape[i].name : i \in 1..Len(type.shape)} \cap DOMAIN x.o
               typeOf(k) == type.shape[CHOOSE i \in 1..Len(type.shape) : type.shape[i].name = k].type
           IN Obj([k \in kept |-> zodOutput(typeOf(k), x.o[k])])
      [] OTHER -> x

(***************************************************************************)
(* utils                                                                   *)
(***************************************************************************)
\* Array.prototype.join
RECURSIVE join(_, _)
join(parts, sep) ==
    IF parts = <<>> THEN <<>>
    ELSE IF Len(parts) = 1 THEN parts[1]
    ELSE parts[1] \o <<sep>> \o join(Tail(parts), sep)

\* zodToJsonSchema(schema)
RECURSIVE zodToJsonSchema(_)
zodToJsonSchema(type) ==
    CASE type.z = "string" -> [type |-> "string"]
      [] type.z = "number" -> [type |-> "number"]
      [] type.z = "unknown" -> [any |-> TRUE]
      [] type.z = "record" -> [type |-> "object", additionalProperties |-> TRUE]
      [] type.z = "enum" -> [type |-> "string", enum |-> type.values]
      [] type.z = "array" -> [type |-> "array", items |-> zodToJsonSchema(type.elem)]
      [] type.z = "object" ->
           [type |-> "object",
            properties |-> [i \in 1..Len(type.shape) |->
                              [name |-> type.shape[i].name,
                               description |-> type.shape[i].description,
                               schema |-> zodToJsonSchema(type.shape[i].type)]],
            required |-> {type.shape[i].name : i \in {j \in 1..Len(type.shape) :
                                                          ~type.shape[j].optional}},
            additionalProperties |-> FALSE]

\* getInputSchema(schema)
getInputSchema(schema) ==
    LET jsonSchema == zodToJsonSchema(schema)
    IN IF "type" \notin DOMAIN jsonSchema \/ jsonSchema.type # "object"
       THEN [threw |-> TRUE,
             value |-> Error(<<"Invalid input schema to convert: expected an object but got ",
                               IF "type" \in DOMAIN jsonSchema THEN jsonSchema.type
                               ELSE "no type">>)]
       ELSE [threw |-> FALSE, value |-> jsonSchema]

\* JSON.stringify(data): throws on a value it cannot serialize
RECURSIVE Serializable(_)
Serializable(x) ==
    CASE x.t = "bigint" -> FALSE
      [] x.t = "object" -> \A k \in DOMAIN x.o : Serializable(x.o[k])
      [] x.t = "array" -> \A i \in 1..Len(x.a) : Serializable(x.a[i])
      [] OTHER -> TRUE
JSONstringify(x) ==
    IF Serializable(x) THEN [threw |-> FALSE, value |-> [json |-> x]]
    ELSE [threw |-> TRUE,
          value |-> [t |-> "error", v |-> <<"TypeError: Do not know how to serialize a BigInt">>,
                     message |-> <<"Do not know how to serialize a BigInt">>]]

\* formatToolResponse(data, isError)
formatToolResponse(d, isError) ==
    LET text == JSONstringify(d)
    IN IF text.threw THEN text
       ELSE [threw |-> FALSE,
             value |-> [content |-> <<[type |-> "text", mimeType |-> "application/json",
                                       text |-> text.value]>>,
                        isError |-> isError]]

\* formatErrorResponse that leaves isError at its default
formatErrorResponse_notFlagged(toolName, error) ==
    LET errorMessage == IF error.t = "error" THEN error.message ELSE error.v
    IN formatToolResponse(Str(<<"Error in tool ">> \o toolName \o <<": ">> \o errorMessage), FALSE)

\* formatErrorResponse(toolName, error)
formatErrorResponse(toolName, error) ==
    LET errorMessage == IF error.t = "error" THEN error.message ELSE error.v
    IN formatToolResponse(Str(<<"Error in tool ">> \o toolName \o <<": ">> \o errorMessage), TRUE)

\* safeExecute without its catch: what fn throws goes on to the caller
safeExecute_rethrow(toolName, fn) ==
    LET formatted == formatToolResponse(fn.value, FALSE)
        result == IF fn.threw THEN [threw |-> TRUE, value |-> fn.value] ELSE formatted
    IN [threw |-> result.threw, value |-> result.value, store |-> fn.store, calls |-> fn.calls,
        fn |-> [ran |-> TRUE, threw |-> fn.threw, value |-> fn.value]]

\* safeExecute(toolName, fn), given the outcome of fn(); the result records
\* in fn what the closure did
safeExecute(toolName, fn) ==
    LET caught(error) == formatErrorResponse(toolName, error)
        formatted == formatToolResponse(fn.value, FALSE)
        result == IF fn.threw THEN caught(fn.value)
                  ELSE IF formatted.threw THEN caught(formatted.value)
                  ELSE formatted
    IN [threw |-> result.threw, value |-> result.value, store |-> fn.store, calls |-> fn.calls,
        fn |-> [ran |-> TRUE, threw |-> fn.threw, value |-> fn.value]]

\* validateInput that reports the first issue only
validateInput_firstOnly(schema, d) ==
    LET issues == zodIssues(schema, d, <<>>)
        formattedError == join([j \in 1..Len(issues[1].path) |-> <<issues[1].path[j]>>], ".")
                          \o <<": ">> \o issues[1].message
    IN IF issues = <<>> THEN [threw |-> FALSE, value |-> zodOutput(schema, d)]
       ELSE [threw |-> TRUE, value |-> Error(<<"Invalid input: ">> \o formattedError)]

\* validateInput(schema, data)
validateInput(schema, d) ==
    LET issues == zodIssues(schema, d, <<>>)
        formattedError == join([i \in 1..Len(issues) |->
                                  join([j \in 1..Len(issues[i].path) |-> <<issues[i].path[j]>>], ".") \o <<": ">> \o issues[i].message],
                               "; ")
    IN IF issues = <<>> THEN [threw |-> FALSE, value |-> zodOutput(schema, d)]
       ELSE [threw |-> TRUE, value |-> Error(<<"Invalid input: ">> \o formattedError)]

(***************************************************************************)
(* MCPServer                                                               *)
(***************************************************************************)
BuiltinTools == <<
    [name |-> <<"list_records">>, description |-> <<"List records from a resource">>,
     schema |-> ListRecordsArgsSchema],
    [name |-> <<"search_records">>, description |-> <<"Search for records containing specific text">>,
     schema |-> SearchRecordsArgsSchema],
    [name |-> <<"get_record">>, description |-> <<"Get a specific record by ID">>,
     schema |-> GetRecordArgsSchema],
    [name |-> <<"create_record">>, description |-> <<"Create a new record in a resource">>,
     schema |-> CreateRecordArgsSchema],
    [name |-> <<"update_record">>, description |-> <<"Update a record in a resource">>,
     schema |-> UpdateRecordArgsSchema],
    [name |-> <<"delete_record">>, description |-> <<"Delete a record from a resource">>,
     schema |-> DeleteRecordArgsSchema]>>
BuiltinNames == {BuiltinTools[i].name : i \in 1..Len(BuiltinTools)}

\* one entry of the calls a request made: a built-in closure, a registered
\* handler (hid: which registration) or a data-service operation
Call(kind, name, hid) == [kind |-> kind, name |-> name, hid |-> hid]
\* the outcome of a closure: a data-service outcome plus the calls made
Traced(outcome, calls) ==
    [threw |-> outcome.threw, value |-> outcome.value, store |-> outcome.store, calls |-> calls]
\* an envelope (or a throw) of the utils, as the outcome of a request
Reply(r, st, calls) ==
    [threw |-> r.threw, value |-> r.value, store |-> st, calls |-> calls, fn |-> [ran |-> FALSE]]
Invalid(args, st, calls) == [threw |-> TRUE, value |-> args.value, store |-> st, calls |-> calls]

\* handleListTools(), the method of the class
listToolsMethod ==
    [threw |-> FALSE,
     value |-> [tools |-> [i \in 1..Len(BuiltinTools) |->
                             [name |-> BuiltinTools[i].name,
                              description |-> BuiltinTools[i].description,
                              inputSchema |-> getInputSchema(BuiltinTools[i].schema).value]]]]

\* the closures of handleCallTool with a get_record that fetches the record
builtinClosure_fetchesRecord(st, toolName, arguments) ==
    LET me == <<Call("builtin", toolName[1], 0)>>
        svc(op) == Append(me, Call("service", op, 0))
    IN CASE toolName = <<"list_records">> ->
              LET args == validateInput(ListRecordsArgsSchema, arguments)
              IN IF args.threw THEN Invalid(args, st, me)
                 ELSE Traced(queryResource(st, args.value.o.resourceUri.v,
                                 [maxRecords |-> Prop(args.value.o, "maxRecords"),
                                  filter |-> Prop(args.value.o, "filter"),
                                  sort |-> Prop(args.value.o, "sort")]),
                             svc("queryResource"))
         [] toolName = <<"search_records">> ->
              LET args == validateInput(SearchRecordsArgsSchema, arguments)
              IN IF args.threw THEN Invalid(args, st, me)
                 ELSE Traced(queryResource(st, args.value.o.resourceUri.v,
                                 [searchTerm |-> Prop(args.value.o, "searchTerm"),
                                  fields |-> Prop(args.value.o, "fields"),
                                  maxRecords |-> Prop(args.value.o, "maxRecords")]),
                             svc("queryResource"))
         [] toolName = <<"get_record">> ->
              LET args == validateInput(GetRecordArgsSchema, arguments)
                  resource == getResource(st, args.value.o.resourceUri.v)
              IN IF args.threw THEN Invalid(args, st, me)
                 ELSE IF resource.threw THEN Traced(resource, svc("getResource"))
                 ELSE IF ~MapHas(MapGet(st.data, args.value.o.resourceUri.v), args.value.o.recordId)
                 THEN Traced(Throw(RecordNotFound(args.value.o.recordId), st), svc("getResource"))
                 ELSE Traced(Return(Obj(MapGet(MapGet(st.data, args.value.o.resourceUri.v),
                                               args.value.o.recordId)), st),
                             svc("getResource"))
         [] toolName = <<"create_record">> ->
              LET args == validateInput(CreateRecordArgsSchema, arguments)
                  record == createRecord(st, args.value.o.resourceUri.v, args.value.o.data.o)
              IN IF args.threw THEN Invalid(args, st, me)
                 ELSE IF record.threw THEN Traced(record, svc("createRecord"))
                 ELSE Traced(Return(Obj(record.value), record.store), svc("createRecord"))
         [] toolName = <<"update_record">> ->
              LET args == validateInput(UpdateRecordArgsSchema, arguments)
                  record == updateRecord(st, args.value.o.resourceUri.v,
                                         args.value.o.recordId, args.value.o.data.o)
              IN IF args.threw THEN Invalid(args, st, me)
                 ELSE IF record.threw THEN Traced(record, svc("updateRecord"))
                 ELSE Traced(Return(Obj(record.value), record.store), svc("updateRecord"))
         [] toolName = <<"delete_record">> ->
              LET args == validateInput(DeleteRecordArgsSchema, arguments)
                  success == deleteRecord(st, args.value.o.resourceUri.v, args.value.o.recordId)
              IN IF args.threw THEN Invalid(args, st, me)
                 ELSE IF success.threw THEN Traced(success, svc("deleteRecord"))
                 ELSE Traced(Return(Obj([success |-> success.value,
                                         id |-> args.value.o.recordId]), success.store),
                             svc("deleteRecord"))

\* the closure each case of handleCallTool hands to safeExecute
builtinClosure(st, toolName, arguments) ==
    LET me == <<Call("builtin", toolName[1], 0)>>
        svc(op) == Append(me, Call("service", op, 0))
    IN CASE toolName = <<"list_records">> ->
              LET args == validateInput(ListRecordsArgsSchema, arguments)
              IN IF args.threw THEN Invalid(args, st, me)
                 ELSE Traced(queryResource(st, args.value.o.resourceUri.v,
                                 [maxRecords |-> Prop(args.value.o, "maxRecords"),
                                  filter |-> Prop(args.value.o, "filter"),
                                  sort |-> Prop(args.value.o, "sort")]),
                             svc("queryResource"))
         [] toolName = <<"search_records">> ->
              LET args == validateInput(SearchRecordsArgsSchema, arguments)
              IN IF args.threw THEN Invalid(args, st, me)
                 ELSE Traced(queryResource(st, args.value.o.resourceUri.v,
                                 [searchTerm |-> Prop(args.value.o, "searchTerm"),
                                  fields |-> Prop(args.value.o, "fields"),
                                  maxRecords |-> Prop(args.value.o, "maxRecords")]),
                             svc("queryResource"))
         [] toolName = <<"get_record">> ->
              LET args == validateInput(GetRecordArgsSchema, arguments)
                  resource == getResource(st, args.value.o.resourceUri.v)
              IN IF args.threw THEN Invalid(args, st, me)
                 ELSE IF resource.threw THEN Traced(resource, svc("getResource"))
                 ELSE Traced(Return(Obj([id |-> args.value.o.recordId,
                                         resource |-> Str(resource.value.name)]), st),
                             svc("getResource"))
         [] toolName = <<"create_record">> ->
              LET args == validateInput(CreateRecordArgsSchema, arguments)
                  record == createRecord(st, args.value.o.resourceUri.v, args.value.o.data.o)
              IN IF args.threw THEN Invalid(args, st, me)
                 ELSE IF record.threw THEN Traced(record, svc("createRecord"))
                 ELSE Traced(Return(Obj(record.value), record.store), svc("createRecord"))
         [] toolName = <<"update_record">> ->
              LET args == validateInput(UpdateRecordArgsSchema, arguments)
                  record == updateRecord(st, args.value.o.resourceUri.v,
                                         args.value.o.recordId, args.value.o.data.o)
              IN IF args.threw THEN Invalid(args, st, me)
                 ELSE IF record.threw THEN Traced(record, svc("updateRecord"))
                 ELSE Traced(Return(Obj(record.value), record.store), svc("updateRecord"))
         [] toolName = <<"delete_record">> ->
              LET args == validateInput(DeleteRecordArgsSchema, arguments)
                  success == deleteRecord(st, args.value.o.resourceUri.v, args.value.o.recordId)
              IN IF args.threw THEN Invalid(args, st, me)
                 ELSE IF success.threw THEN Traced(success, svc("deleteRecord"))
                 ELSE Traced(Return(Obj([success |-> success.value,
                                         id |-> args.value.o.recordId]), success.store),
                             svc("deleteRecord"))

\* the switch of handleCallTool: the names that have a case
hasCase(toolName) == toolName \in BuiltinNames

\* the outer try/catch of handleCallTool:
\* catch (error) { return formatErrorResponse(toolName, error) }
outerCatch(toolName, inner) ==
    IF inner.threw
    THEN Reply(formatErrorResponse(toolName, inner.value), inner.store, inner.calls)
    ELSE inner

\* handleCallTool(request), the method of the class
callToolMethod(st, request) ==
    outerCatch(request.name,
        IF hasCase(request.name)
        THEN safeExecute(request.name, builtinClosure(st, request.name, request.arguments))
        ELSE Reply(formatErrorResponse(request.name, Str(<<"Unknown tool: ">> \o request.name)),
                   st, <<>>))

\* the handler function given to registerTool, applied to the validated
\* arguments: the handlers of the example server and of the documentation,
\* and handlers that fail or return what JSON cannot carry
invokeHandler(st, toolName, handler, args) ==
    LET me == <<Call("custom", toolName[1], handler.hid)>>
    IN CASE handler.does = "constant" ->
              Traced(Return(Obj([result |-> Str(<<"success">>)]), st), me)
         [] handler.does = "activate" ->
              LET parsed == validateInput(ActivateUserArgsSchema, args)
                  result == updateRecord(st, parsed.value.o.resourceUri.v, parsed.value.o.userId,
                                         [isActive |-> Bool(TRUE)])
              IN IF parsed.threw THEN Invalid(parsed, st, me)
                 ELSE IF result.threw THEN Traced(result, Append(me, Call("service", "updateRecord", 0)))
                 ELSE Traced(Return(Obj([success |-> Bool(TRUE), user |-> Obj(result.value)]),
                                    result.store),
                             Append(me, Call("service", "updateRecord", 0)))
         [] handler.does = "throwError" -> Traced(Throw(Error(<<"boom">>), st), me)
         [] handler.does = "throwString" -> Traced(Throw(Str(<<"boom">>), st), me)
         [] handler.does = "bigint" -> Traced(Return(Obj([count |-> BigInt(1)]), st), me)

\* the closure the call wrapper of registerTool hands to safeExecute
customClosure(st, layer, arguments) ==
    LET args == validateInput(layer.inputSchema, arguments)
    IN IF args.threw THEN Invalid(args, st, <<>>)
       ELSE invokeHandler(st, layer.toolName, layer.handler, args.value)

Front(s) == SubSeq(s, 1, Len(s) - 1)
Last(s) == s[Len(s)]

\* this.handleListTools after registerTool calls: each wrapper calls the
\* handler it replaced and pushes its own tool
RECURSIVE listToolsChain(_)
listToolsChain(layers) ==
    IF layers = <<>> THEN listToolsMethod
    ELSE LET result == listToolsChain(Front(layers))
             schema == getInputSchema(Last(layers).inputSchema)
         IN IF result.threw THEN result
            ELSE IF schema.threw THEN schema
            ELSE [threw |-> FALSE,
                  value |-> [tools |-> Append(result.value.tools,
                                              [name |-> Last(layers).name,
                                               description |-> Last(layers).description,
                                               inputSchema |-> schema.value])]]

\* a call wrapper that forgets the handler it replaced
callToolChain_replace(layers, st, request) ==
    IF layers = <<>> THEN callToolMethod(st, request)
    ELSE IF request.name = Last(layers).toolName
         THEN safeExecute(Last(layers).toolName,
                          customClosure(st, Last(layers), request.arguments))
         ELSE Reply(formatErrorResponse(request.name, Str(<<"Unknown tool: ">> \o request.name)),
                    st, <<>>)

\* this.handleCallTool after registerTool calls: each wrapper answers its
\* own name and hands every other name to the handler it replaced
RECURSIVE callToolChain(_, _, _)
callToolChain(layers, st, request) ==
    IF layers = <<>> THEN callToolMethod(st, request)
    ELSE IF request.name = Last(layers).toolName
         THEN safeExecute(Last(layers).toolName,
                          customClosure(st, Last(layers), request.arguments))
         ELSE callToolChain(Front(layers), st, request)

\* the function a request reaches: the one the protocol layer was given, or
\* the current value of the instance property
listToolsHandler(via) ==
    IF via = "protocol" THEN requestHandlers.ListTools ELSE handleListTools
callToolHandler(via) ==
    IF via = "protocol" THEN requestHandlers.CallTool ELSE handleCallTool

(***************************************************************************)
(* Inputs                                                                  *)
(***************************************************************************)
ResourceNames == {<<"U", "s">>, <<"u", "s">>}
Descriptions == {<<"d">>}
UriUs == deriveUri(<<"U", "s">>)
UriNone == deriveUri(<<"n", "o">>)
Uris == {UriUs, UriNone}

R1 == Str(<<"r", "1">>)
R2 == Str(<<"r", "2">>)
RecordIds == {R1, Uuid(1)}
DataMaps == {
    EmptyObject,
    [id |-> R1],
    [id |-> Str(<<>>)],
    [id |-> Num(0), name |-> Str(<<"a">>)]}
SeedLists == {
    <<[id |-> R1], [id |-> R1, name |-> Str(<<"a">>)]>>,
    <<[id |-> Null]>>}

Queries == {
    [filter |-> Obj([name |-> Str(<<"a">>)])],
    [sort |-> Arr(<<Obj([field |-> Str(<<"id">>), direction |-> Str(<<"desc">>)])>>),
     maxRecords |-> Num(1)]}

\* the tools a program registers: those of the example server and of the
\* documentation, one under the name of a built-in
ToolDefs == {
    [name |-> <<"activate_user">>, description |-> <<"Activate a user account">>,
     schema |-> ActivateUserArgsSchema, does |-> "activate"],
    [name |-> <<"find_books_by_author">>, description |-> <<"Find all books by a specific author">>,
     schema |-> ZObject(<<Field("authorName", ZString, <<>>)>>), does |-> "constant"],
    [name |-> <<"list_records">>, description |-> <<"List everything">>,
     schema |-> ZObject(<<>>), does |-> "constant"]}

\* handlers by what they do when called
HandlerDefs == {
    [name |-> <<"find_books_by_author">>, description |-> <<"Find all books by a specific author">>,
     schema |-> ZObject(<<Field("authorName", ZString, <<>>),
                          Field("year", ZNumber, <<>>)>>), does |-> "constant"],
    [name |-> <<"activate_user">>, description |-> <<"Activate a user account">>,
     schema |-> ActivateUserArgsSchema, does |-> "activate"],
    [name |-> <<"fail_error">>, description |-> <<"Fails">>,
     schema |-> ZObject(<<>>), does |-> "throwError"],
    [name |-> <<"fail_string">>, description |-> <<"Fails">>,
     schema |-> ZObject(<<>>), does |-> "throwString"],
    [name |-> <<"count_records">>, description |-> <<"Count records">>,
     schema |-> ZObject(<<>>), does |-> "bigint"],
    [name |-> <<"tag_records">>, description |-> <<"Tag records">>,
     schema |-> ZArray(ZString), does |-> "constant"]}

U1 == Str(UriUs)
U2 == Str(UriNone)
Request(name, arguments) == [name |-> name, arguments |-> arguments]
Requests == {
    Request(<<"list_records">>, Obj([resourceUri |-> U1])),
    Request(<<"list_records">>, Obj(EmptyObject)),
    Request(<<"search_records">>, Obj([resourceUri |-> U1, searchTerm |-> Str(<<"R">>)])),
    Request(<<"get_record">>, Obj([resourceUri |-> U1, recordId |-> R2])),
    Request(<<"create_record">>, Obj([resourceUri |-> U1, data |-> Obj([id |-> R1])])),
    Request(<<"update_record">>, Obj([resourceUri |-> U1, recordId |-> R1,
                                      data |-> Obj([name |-> Str(<<"c">>)])])),
    Request(<<"delete_record">>, Obj([resourceUri |-> U1, recordId |-> R1])),
    Request(<<"create_record">>, Obj([resourceUri |-> U2, data |-> Obj([id |-> R1])])),
    Request(<<"activate_user">>, Obj([resourceUri |-> U1, userId |-> R1])),
    Request(<<"find_books_by_author">>, Obj([authorName |-> Str(<<"x">>)])),
    Request(<<"no_such_tool">>, Obj(EmptyObject))}

\* requests for the record tools, on a registered and on an unregistered URI
RecordToolRequests == {
    Request(<<"list_records">>, Obj([resourceUri |-> U2])),
    Request(<<"search_records">>, Obj([resourceUri |-> U2, searchTerm |-> Str(<<"a">>)])),
    Request(<<"create_record">>, Obj([resourceUri |-> U2, data |-> Obj([id |-> R1])])),
    Request(<<"update_record">>, Obj([resourceUri |-> U2, recordId |-> R1,
                                      data |-> Obj(EmptyObject)])),
    Request(<<"delete_record">>, Obj([resourceUri |-> U2, recordId |-> R1])),
    Request(<<"delete_record">>, Obj([resourceUri |-> U1, recordId |-> R1]))}

\* requests that the schemas reject, and requests for each kind of handler
HandlerRequests == {
    Request(<<"create_record">>, Undefined),
    Request(<<"create_record">>, Obj([resourceUri |-> U1, data |-> Obj([id |-> R1])])),
    Request(<<"create_record">>, Obj([resourceUri |-> Num(5), data |-> Str(<<"x">>)])),
    Request(<<"update_record">>, Obj([resourceUri |-> U1, data |-> Obj([name |-> Str(<<"c">>)])])),
    Request(<<"update_record">>, Obj([resourceUri |-> U1, recordId |-> R1,
                                      data |-> Obj(EmptyObject)])),
    Request(<<"delete_record">>, Obj([recordId |-> Uuid(1)])),
    Request(<<"delete_record">>, Obj([resourceUri |-> U1, recordId |-> R1])),
    Request(<<"list_records">>, Obj([resourceUri |-> U1,
        sort |-> Arr(<<Obj([direction |-> Str(<<"up">>)])>>), maxRecords |-> Str(<<"1">>)])),
    Request(<<"list_records">>, Obj([resourceUri |-> U1,
        sort |-> Arr(<<Obj([field |-> Str(<<"id">>), direction |-> Str(<<"desc">>)])>>)])),
    Request(<<"find_books_by_author">>, Obj([authorName |-> Str(<<"x">>), year |-> Num(1937)])),
    Request(<<"find_books_by_author">>, Obj([authorName |-> Num(1), year |-> Str(<<"y">>)])),
    Request(<<"activate_user">>, Obj([resourceUri |-> U1, userId |-> R1])),
    Request(<<"activate_user">>, Obj([resourceUri |-> U1])),
    Request(<<"fail_error">>, Obj(EmptyObject)),
    Request(<<"fail_string">>, Obj(EmptyObject)),
    Request(<<"count_records">>, Obj(EmptyObject)),
    Request(<<"tag_records">>, Obj(EmptyObject)),
    Request(<<"no_such_tool">>, Undefined)}

(***************************************************************************)
(* State machine                                                           *)
(***************************************************************************)
Init ==
    /\ resources = EmptyMap
    /\ data = EmptyMap
    /\ uuidCount = 0
    /\ now = 0
    /\ handleListTools = <<>>
    /\ handleCallTool = <<>>
    \* initializeHandlers: the functions the properties hold at construction
    /\ requestHandlers = [ListTools |-> <<>>, CallTool |-> <<>>]
    /\ inflight = <<>>
    /\ response = [op |-> "new"]

server == <<handleListTools, handleCallTool, requestHandlers, inflight>>

\* the store an outcome leaves behind
Commit(outcome) ==
    /\ resources' = outcome.store.resources
    /\ data' = outcome.store.data
    /\ uuidCount' = outcome.store.uuidCount

\* the number of records held by the collections of a store
RECURSIVE recordCount(_)
recordCount(d) == IF d = <<>> THEN 0 ELSE Len(Head(d).v) + recordCount(Tail(d))

\* the store stays within the bounds of the model
WithinBounds(st) ==
    /\ st.uuidCount <= MaxUuid
    /\ recordCount(st.data) <= MaxRecords

\* a direct call of a data-service method
Service(op, input, outcome) ==
    /\ WithinBounds(outcome.store)
    /\ Commit(outcome)
    /\ response' = [op |-> op, input |-> input, threw |-> outcome.threw,
                    value |-> outcome.value, before |-> Store]
    /\ UNCHANGED <<now, server>>

RegisterResourceFrom(names) ==
    \E name \in names, description \in Descriptions :
        Service("registerResource", [name |-> name, description |-> description],
                registerResource(Store, name, description))

RegisterResource == RegisterResourceFrom(ResourceNames)

\* the example server registers its one resource
RegisterUsers == RegisterResourceFrom({<<"U", "s">>})

SeedData ==
    \E uri \in Uris, records \in SeedLists :
        Service("seedData", [uri |-> uri, records |-> records], seedData(Store, uri, records))

CreateRecord ==
    \E uri \in Uris, d \in DataMaps :
        Service("createRecord", [uri |-> uri, data |-> d], createRecord(Store, uri, d))

UpdateRecord ==
    \E uri \in Uris, id \in RecordIds, d \in DataMaps :
        Service("updateRecord", [uri |-> uri, id |-> id, data |-> d],
                updateRecord(Store, uri, id, d))

QueryResource ==
    \E uri \in Uris, query \in Queries :
        Service("queryResource", [uri |-> uri, query |-> query], queryResource(Store, uri, query))

DeleteRecord ==
    \E uri \in Uris, id \in RecordIds :
        Service("deleteRecord", [uri |-> uri, id |-> id], deleteRecord(Store, uri, id))

\* registerTool(toolName, description, inputSchema, handler)
registerTool(def) ==
    /\ handleListTools' = Append(handleListTools,
           [name |-> def.name, description |-> def.description, inputSchema |-> def.schema])
    /\ handleCallTool' = Append(handleCallTool,
           [toolName |-> def.name, inputSchema |-> def.schema,
            handler |-> [hid |-> Len(handleCallTool) + 1, does |-> def.does]])
    /\ response' = [op |-> "registerTool", input |-> def, before |-> Store]
    /\ UNCHANGED <<resources, data, uuidCount, now, requestHandlers, inflight>>

RegisterTool ==
    \E def \in ToolDefs : Len(handleCallTool) < MaxTools /\ registerTool(def)

RegisterHandler ==
    \E def \in HandlerDefs : Len(handleCallTool) < MaxHandlers /\ registerTool(def)

Vias == {"protocol", "instance"}

\* a list-tools request
ListTools ==
    \E via \in Vias :
        LET outcome == listToolsChain(listToolsHandler(via))
        IN /\ response' = [op |-> "listTools", via |-> via, threw |-> outcome.threw,
                           value |-> outcome.value, before |-> Store]
           /\ UNCHANGED <<resources, data, uuidCount, now, server>>

\* the outcome of a call-tool request, applied to the state
respond(via, request, outcome) ==
    /\ WithinBounds(outcome.store)
    /\ Commit(outcome)
    /\ response' = [op |-> "callTool", via |-> via, request |-> request,
                    threw |-> outcome.threw, value |-> outcome.value,
                    calls |-> outcome.calls, fn |-> outcome.fn, before |-> Store]
    /\ UNCHANGED <<now, server>>

\* a call-tool request
callTool(via, request) ==
    respond(via, request, callToolChain(callToolHandler(via), Store, request))

CallTool == \E via \in Vias, request \in Requests : callTool(via, request)

CallRecordTool == \E request \in RecordToolRequests : callTool("protocol", request)

\* the example server seeds its resource; a record may hold any value
SeedUsers ==
    \E records \in {<<[id |-> R1, visits |-> BigInt(1)]>>, <<[id |-> R1]>>} :
        Service("seedData", [uri |-> UriUs, records |-> records], seedData(Store, UriUs, records))

CallHandler == \E via \in Vias, request \in HandlerRequests : callTool(via, request)

\* time passes between two operations
Tick ==
    /\ now < MaxClock
    /\ now' = now + 1
    /\ response' = [op |-> "tick"]
    /\ UNCHANGED <<resources, data, uuidCount, server>>

\* the dispatcher and its tool registry
Next ==
    \/ RegisterUsers
    \/ RegisterTool
    \/ ListTools
    \/ CallTool
    \/ Tick

Spec == Init /\ [][Next]_vars

\* the dispatcher with each kind of handler and of argument
NextHandlers ==
    \/ RegisterUsers
    \/ SeedUsers
    \/ RegisterHandler
    \/ CallHandler

SpecHandlers == Init /\ [][NextHandlers]_vars

\* the record store, called directly
NextStore ==
    \/ RegisterResource
    \/ SeedData
    \/ CreateRecord
    \/ UpdateRecord
    \/ DeleteRecord
    \/ QueryResource
    \/ CallRecordTool

SpecStore == Init /\ [][NextStore]_vars

(***************************************************************************)
(* Calls in flight.  A call-tool request is received, then its handler is  *)
(* invoked: handleCallTool, safeExecute and the closure run up to the      *)
(* first await, and the data-service method they call (an async function   *)
(* without an await of its own) runs to its end in that same turn.  The    *)
(* rest of the call (the continuations after the awaits, which format the  *)
(* envelope) runs in a later turn, after any number of turns of other      *)
(* calls.                                                                  *)
(***************************************************************************)
ConcurrentRequests == {
    Request(<<"update_record">>, Obj([resourceUri |-> U1, recordId |-> R1,
                                      data |-> Obj([name |-> Str(<<"c">>), tag |-> Str(<<"x">>)])])),
    Request(<<"update_record">>, Obj([resourceUri |-> U1, recordId |-> R1,
                                      data |-> Obj([name |-> Str(<<"d">>)])])),
    Request(<<"delete_record">>, Obj([resourceUri |-> U1, recordId |-> R1])),
    Request(<<"create_record">>, Obj([resourceUri |-> U1, data |-> Obj([id |-> R1])]))}

\* the calls whose handler has been invoked
InvokedCalls == {i \in 1..Len(inflight) : inflight[i].pc # "pending"}

\* a request arrives at the server
Arrive ==
    \E request \in ConcurrentRequests :
        /\ Len(inflight) < MaxCalls
        /\ inflight' = Append(inflight, [request |-> request, pc |-> "pending"])
        /\ response' = [op |-> "arrive", request |-> request]
        /\ UNCHANGED <<resources, data, uuidCount, now, handleListTools, handleCallTool,
                       requestHandlers>>

\* the synchronous part of a call: validation and the data-service operation
invoke(i, outcome) ==
    /\ WithinBounds(outcome.store)
    /\ Commit(outcome)
    /\ inflight' = [inflight EXCEPT ![i] =
           [request |-> @.request, pc |-> "awaiting", seq |-> Cardinality(InvokedCalls) + 1,
            before |-> Store, after |-> outcome.store,
            threw |-> outcome.threw, value |-> outcome.value,
            calls |-> outcome.calls, fn |-> outcome.fn]]
    /\ response' = [op |-> "invoke", call |-> i]
    /\ UNCHANGED <<now, handleListTools, handleCallTool, requestHandlers>>

Invoke ==
    \E i \in 1..Len(inflight) :
        /\ inflight[i].pc = "pending"
        /\ invoke(i, callToolChain(callToolHandler("protocol"), Store, inflight[i].request))

\* a Settle that returns the envelopes in the order the calls were received
Settle_inOrder ==
    \E i \in 1..Len(inflight) :
        /\ inflight[i].pc = "awaiting"
        /\ \A j \in 1..(i - 1) : inflight[j].pc = "settled"
        /\ inflight' = [inflight EXCEPT ![i].pc = "settled"]
        /\ response' = [op |-> "settle", call |-> i]
        /\ UNCHANGED <<resources, data, uuidCount, now, handleListTools, handleCallTool,
                       requestHandlers>>

\* the continuation of a call: its envelope is returned to the client
Settle ==
    \E i \in 1..Len(inflight) :
        /\ inflight[i].pc = "awaiting"
        /\ inflight' = [inflight EXCEPT ![i].pc = "settled"]
        /\ response' = [op |-> "settle", call |-> i]
        /\ UNCHANGED <<resources, data, uuidCount, now, handleListTools, handleCallTool,
                       requestHandlers>>

\* the example server sets up its resource before it serves calls
SetUp == inflight = <<>> /\ (RegisterUsers \/ SeedUsers)

\* calls in flight at the same time
NextConcurrent ==
    \/ SetUp
    \/ Arrive
    \/ Invoke
    \/ Settle

SpecConcurrent == Init /\ [][NextConcurrent]_vars

(***************************************************************************)
(* The records of one resource over time: creates and updates with the     *)
(* clock advancing between them.                                           *)
(***************************************************************************)
CreateMaps == {EmptyObject, [id |-> R1, name |-> Str(<<"a">>)]}
UpdateMaps == {
    [name |-> Str(<<"b">>)],
    [id |-> R2, role |-> Str(<<"x">>)],
    [createdAt |-> Str(<<"x">>), updatedAt |-> Str(<<"y">>)]}

CreateUser ==
    \E d \in CreateMaps :
        Service("createRecord", [uri |-> UriUs, data |-> d], createRecord(Store, UriUs, d))

UpdateUser ==
    \E id \in RecordIds, d \in UpdateMaps :
        Service("updateRecord", [uri |-> UriUs, id |-> id, data |-> d],
                updateRecord(Store, UriUs, id, d))

NextUpdates ==
    \/ RegisterUsers
    \/ CreateUser
    \/ UpdateUser
    \/ Tick

SpecUpdates == Init /\ [][NextUpdates]_vars

(***************************************************************************)
(* Queries over a seeded resource.                                         *)
(***************************************************************************)
Smith == <<"s", "m", "i", "t", "h">>
Active == <<"a", "c", "t", "i", "v", "e">>
Catalog == <<
    [id |-> R1, name |-> Str(<<"J", "a", "n", "e", " ", "S", "m", "i", "t", "h">>),
     status |-> Str(<<"A", "C", "T", "I", "V", "E">>), age |-> Num(30), admin |-> Bool(TRUE)],
    [id |-> R2, name |-> Str(<<"b", "o", "b">>), status |-> Str(Active),
     age |-> Str(<<"3", "0">>), tags |-> Arr(<<Str(Smith)>>)],
    [id |-> Str(<<"r", "3">>), name |-> Str(<<"A", "l">>), status |-> Str(Active),
     age |-> Num(7), note |-> Null],
    [id |-> Str(<<"r", "4">>), status |-> Str(<<"A", "C", "T", "I", "V", "E">>),
     meta |-> Obj([name |-> Str(Smith)])]>>

\* a second resource, holding one record more than the default the input
\* schemas describe for maxRecords
UriLog == deriveUri(<<"L", "o", "g">>)
ULog == Str(UriLog)
Bulk == [i \in 1..(DefaultMaxRecords + 1) |-> [id |-> Str(digitsOf(i))]]

ByName(direction) == Arr(<<Obj([field |-> Str(<<"name">>), direction |-> Str(<<direction>>)])>>)
SearchQueries == {
    [searchTerm |-> Str(Smith)],
    [searchTerm |-> Str(<<"S", "M", "I", "T", "H">>)],
    [searchTerm |-> Str(<<"3">>)],
    [searchTerm |-> Str(<<"r", "u">>)],
    [searchTerm |-> Str(Active), fields |-> Arr(<<Str(<<"name">>)>>)],
    [searchTerm |-> Str(<<"a", "l">>), fields |-> Arr(<<Str(<<"name">>), Str(<<"status">>)>>)],
    [searchTerm |-> Str(Smith), fields |-> Arr(<<>>)],
    [searchTerm |-> Str(<<"n", "u", "l", "l">>)],
    [searchTerm |-> Str(<<>>)]}
FilterQueries == {
    [filter |-> Obj([status |-> Str(Active)])],
    [filter |-> Obj([age |-> Num(30)])],
    [filter |-> Obj([status |-> Str(<<"A", "C", "T", "I", "V", "E">>), age |-> Num(30)])],
    [filter |-> Obj([note |-> Null])],
    [filter |-> Obj([meta |-> Obj([name |-> Str(Smith)])])],
    [filter |-> Obj(EmptyObject)]}
PipelineQueries == {
    [searchTerm |-> Str(<<"a">>), filter |-> Obj([status |-> Str(Active)]),
     sort |-> ByName("desc"), maxRecords |-> Num(1)],
    [sort |-> ByName("asc"), maxRecords |-> Num(2)],
    [sort |-> ByName("asc"), maxRecords |-> Num(0)],
    [sort |-> ByName("asc"), maxRecords |-> Num(-1)],
    [sort |-> ByName("desc")],
    [sort |-> ByName("asc")],
    [filter |-> Obj([status |-> Str(Active)]), maxRecords |-> Num(1)],
    [maxRecords |-> Num(5)],
    EmptyObject}
CatalogQueries == SearchQueries \cup FilterQueries \cup PipelineQueries

\* the query tools, with and without maxRecords
QueryToolRequests ==
    UNION {{Request(<<"list_records">>, Obj([resourceUri |-> uri])),
            Request(<<"list_records">>, Obj([resourceUri |-> uri, maxRecords |-> Num(2)])),
            Request(<<"search_records">>, Obj([resourceUri |-> uri, searchTerm |-> Str(<<"T">>)])),
            Request(<<"search_records">>, Obj([resourceUri |-> uri, searchTerm |-> Str(<<"r">>),
                                               maxRecords |-> Num(1)]))} : uri \in {U1, ULog}}

\* the two resources are registered
RegisterQueried == RegisterResourceFrom({<<"U", "s">>, <<"L", "o", "g">>})

\* seedData on a resource while it is empty
seedEmpty(uri, records) ==
    /\ MapHas(data, uri) /\ MapGet(data, uri) = EmptyMap
    /\ Commit(seedData(Store, uri, records))
    /\ response' = [op |-> "seedData", input |-> [uri |-> uri, records |-> records],
                    before |-> Store]
    /\ UNCHANGED <<now, server>>

SeedCatalog ==
    \E n \in 1..MaxCatalog : n <= Len(Catalog) /\ seedEmpty(UriUs, SubSeq(Catalog, 1, n))

SeedBulk == seedEmpty(UriLog, Bulk)

\* queryResource(uri, query), called directly
answerQuery(uri, query, outcome) ==
    /\ Commit(outcome)
    /\ response' = [op |-> "queryResource", input |-> [uri |-> uri, query |-> query],
                    threw |-> outcome.threw, value |-> outcome.value, before |-> Store]
    /\ UNCHANGED <<now, server>>

QueryCatalog ==
    \E query \in CatalogQueries : answerQuery(UriUs, query, queryResource(Store, UriUs, query))

\* a call of list_records or search_records
answerTool(request, outcome) ==
    /\ Commit(outcome)
    /\ response' = [op |-> "callTool", via |-> "protocol", request |-> request,
                    threw |-> outcome.threw, value |-> outcome.value,
                    calls |-> outcome.calls, fn |-> outcome.fn, before |-> Store]
    /\ UNCHANGED <<now, server>>

CallQueryTool ==
    \E request \in QueryToolRequests :
        answerTool(request, callToolChain(callToolHandler("protocol"), Store, request))

NextQuery ==
    \/ RegisterQueried
    \/ SeedCatalog
    \/ SeedBulk
    \/ QueryCatalog
    \/ CallQueryTool

SpecQuery == Init /\ [][NextQuery]_vars

(***************************************************************************)
(* Sorting: a collection seeded in any order and queried with sort lists   *)
(***************************************************************************)
MaxStaff == 3

uid(n) == Str(<<"u", ToString(n)>>)
Admin == Str(<<"a", "d", "m", "i", "n">>)
User == Str(<<"u", "s", "e", "r">>)
\* records with equal, differing and missing values, and with the number 10
\* beside the string "10"
Staff == {
    [id |-> uid(1), role |-> Admin, team |-> Str(<<"b">>), rank |-> Num(2)],
    [id |-> uid(2), role |-> User, team |-> Str(<<"a">>), rank |-> Num(10)],
    [id |-> uid(3), role |-> User, team |-> Str(<<"a">>), rank |-> Str(<<"1", "0">>)],
    [id |-> uid(4), role |-> User, rank |-> Num(2)],
    [id |-> uid(5), role |-> Admin]}
\* the lists of up to MaxStaff different records
StaffLists ==
    {list \in UNION {[1..n -> Staff] : n \in 1..MaxStaff} :
        \A i, j \in 1..Len(list) : i # j => list[i] # list[j]}

SortBy(field, direction) == Obj([field |-> Str(<<field>>), direction |-> Str(<<direction>>)])
SortQueries == {
    [filter |-> Obj([role |-> User]), sort |-> Arr(<<SortBy("id", "desc")>>)],
    [filter |-> Obj([role |-> User]), sort |-> Arr(<<SortBy("rank", "desc")>>)],
    [sort |-> Arr(<<Obj([field |-> Str(<<"team">>)])>>)],
    [sort |-> Arr(<<SortBy("team", "desc")>>)],
    [sort |-> Arr(<<SortBy("role", "asc"), SortBy("team", "desc")>>)],
    [sort |-> Arr(<<SortBy("team", "asc"), SortBy("id", "desc")>>)],
    [sort |-> Arr(<<SortBy("rank", "asc"), SortBy("id", "desc")>>)],
    [sort |-> Arr(<<SortBy("role", "desc"), SortBy("rank", "asc"), SortBy("id", "desc")>>)]}

SeedStaff == \E records \in StaffLists : seedEmpty(UriUs, records)

QueryStaff ==
    \E query \in SortQueries : answerQuery(UriUs, query, queryResource(Store, UriUs, query))

NextSort ==
    \/ RegisterUsers
    \/ SeedStaff
    \/ QueryStaff

SpecSort == Init /\ [][NextSort]_vars

(***************************************************************************)
(* Resources: registration, list-resources and read-resource               *)
(***************************************************************************)
\* names with one and with two adjacent non-alphanumeric characters, and two
\* names that differ in case only
RegisteredNames == {<<"U", "s">>, <<"u", "s">>, <<"a", "!", "b">>,
                    <<"M", "y", " ", " ", "L", "o", "g">>}
RegisteredDescriptions == {<<"d">>, <<"e">>}
ReadUris == {UriUs, UriNone, deriveUri(<<"a", "!", "b">>)}

\* a data service whose listResources rejects
Unavailable == Error(<<"unavailable">>)

\* formatResourceContent(uri, data)
formatResourceContent(uri, d) ==
    [uri |-> uri, mimeType |-> "application/json", text |-> [json |-> d]]

\* handleListResources without its catch: the failure goes on to the caller
handleListResources_rethrow(listed) ==
    IF listed.threw THEN listed
    ELSE Return([resources |->
                    [i \in 1..Len(listed.value) |->
                        [uri |-> listed.value[i].uri, mimeType |-> "application/json",
                         name |-> listed.value[i].name]]],
                listed.store)

\* handleListResources(), on the outcome of dataService.listResources()
handleListResources(listed) ==
    IF listed.threw THEN Return([resources |-> <<>>], listed.store)
    ELSE Return([resources |->
                    [i \in 1..Len(listed.value) |->
                        [uri |-> listed.value[i].uri, mimeType |-> "application/json",
                         name |-> listed.value[i].name]]],
                listed.store)

\* handleReadResource that puts the records of the resource into the content
handleReadResource_records(st, uri, fetched) ==
    IF fetched.threw THEN Throw(ResourceNotFound(uri), fetched.store)
    ELSE Return([contents |-> <<formatResourceContent(uri, MapValues(MapGet(st.data, uri)))>>],
                fetched.store)

\* handleReadResource(request), on the outcome of dataService.getResource(uri)
handleReadResource(st, uri, fetched) ==
    IF fetched.threw THEN Throw(ResourceNotFound(uri), fetched.store)
    ELSE Return([contents |-> <<formatResourceContent(uri, fetched.value)>>], fetched.store)

RegisterNamed ==
    \E name \in RegisteredNames, description \in RegisteredDescriptions :
        Service("registerResource", [name |-> name, description |-> description],
                registerResource(Store, name, description))

\* the data service is the in-memory one, or one whose listResources rejects
ListResources ==
    \E failed \in BOOLEAN :
        Service("handleListResources", [failed |-> failed],
                handleListResources(IF failed THEN Throw(Unavailable, Store)
                                    ELSE listResources(Store)))

ReadResource ==
    \E uri \in ReadUris :
        Service("handleReadResource", [uri |-> uri],
                handleReadResource(Store, uri, getResource(Store, uri)))

NextResources ==
    \/ RegisterNamed
    \/ ListResources
    \/ ReadResource
    \/ CreateUser

SpecResources == Init /\ [][NextResources]_vars

(***************************************************************************)
(* Reads: every operation that only reads, on one seeded resource          *)
(***************************************************************************)
R9 == Str(<<"r", "9">>)
\* the read tools: a sorted listing, a filtered and limited one, a search,
\* and get_record for an id that is stored, one that is not, and an
\* unregistered resource
ReadToolRequests == {
    Request(<<"list_records">>, Obj([resourceUri |-> U1, sort |-> ByName("desc")])),
    Request(<<"list_records">>, Obj([resourceUri |-> U1, filter |-> Obj([status |-> Str(Active)]),
                                     maxRecords |-> Num(1)])),
    Request(<<"list_records">>, Obj([resourceUri |-> U2])),
    Request(<<"search_records">>, Obj([resourceUri |-> U1, searchTerm |-> Str(Smith)])),
    Request(<<"get_record">>, Obj([resourceUri |-> U1, recordId |-> R1])),
    Request(<<"get_record">>, Obj([resourceUri |-> U1, recordId |-> R9])),
    Request(<<"get_record">>, Obj([resourceUri |-> U2, recordId |-> R1])),
    Request(<<"get_record">>, Obj([resourceUri |-> U1]))}

CallReadTool ==
    \E request \in ReadToolRequests :
        answerTool(request, callToolChain(callToolHandler("protocol"), Store, request))

NextReads ==
    \/ RegisterUsers
    \/ SeedCatalog
    \/ QueryCatalog
    \/ CallReadTool
    \/ ListResources
    \/ ReadResource

SpecReads == Init /\ [][NextReads]_vars

(***************************************************************************)
(* A backend that may hang.  The data service is any IDataService; the     *)
(* promise of one of its operations may never resolve.  The call that      *)
(* awaits it (in its closure, in safeExecute and in handleCallTool) then   *)
(* never runs its continuation: nothing times it out or cancels it.  The   *)
(* event loop runs every continuation that is ready, so a call whose       *)
(* operation completed is settled.                                         *)
(***************************************************************************)
\* the call i reaches its data-service operation, which never completes
hang(i, outcome) ==
    /\ \E k \in 1..Len(outcome.calls) : outcome.calls[k].kind = "service"
    /\ inflight' = [inflight EXCEPT ![i] =
           [request |-> @.request, pc |-> "hung", seq |-> Cardinality(InvokedCalls) + 1,
            before |-> Store]]
    /\ response' = [op |-> "hang", call |-> i]
    /\ UNCHANGED <<resources, data, uuidCount, now, handleListTools, handleCallTool,
                   requestHandlers>>

Hang ==
    \E i \in 1..Len(inflight) :
        /\ inflight[i].pc = "pending"
        /\ hang(i, callToolChain(callToolHandler("protocol"), Store, inflight[i].request))

\* a request the schema rejects: its call never reaches the data service
ArriveInvalid ==
    /\ Len(inflight) < MaxCalls
    /\ inflight' = Append(inflight, [request |-> Request(<<"delete_record">>, Obj(EmptyObject)),
                                     pc |-> "pending"])
    /\ response' = [op |-> "arrive", request |-> Request(<<"delete_record">>, Obj(EmptyObject))]
    /\ UNCHANGED <<resources, data, uuidCount, now, handleListTools, handleCallTool,
                   requestHandlers>>

NextHang ==
    \/ SetUp
    \/ Arrive
    \/ ArriveInvalid
    \/ Invoke
    \/ Hang
    \/ Settle

SpecHang == Init /\ [][NextHang]_vars /\ WF_vars(Settle)

(***************************************************************************)
(* Two resources with records of their own, registered again at any time   *)
(***************************************************************************)
PairNames == {<<"U", "s">>, <<"u", "s">>, <<"L", "o", "g">>}
PairUris == {UriUs, UriLog}
PairData == {[id |-> R1], [id |-> R1, name |-> Str(<<"a">>)], EmptyObject}

RegisterPair == RegisterResourceFrom(PairNames)

CreateIn ==
    \E uri \in PairUris, d \in PairData :
        Service("createRecord", [uri |-> uri, data |-> d], createRecord(Store, uri, d))

UpdateIn ==
    \E uri \in PairUris :
        Service("updateRecord", [uri |-> uri, id |-> R1, data |-> [name |-> Str(<<"b">>)]],
                updateRecord(Store, uri, R1, [name |-> Str(<<"b">>)]))

DeleteIn ==
    \E uri \in PairUris :
        Service("deleteRecord", [uri |-> uri, id |-> R1], deleteRecord(Store, uri, R1))

NextPair ==
    \/ RegisterPair
    \/ CreateIn
    \/ UpdateIn
    \/ DeleteIn

SpecPair == Init /\ [][NextPair]_vars

(***************************************************************************)
(* Properties                                                              *)
(***************************************************************************)
IsCall == response.op = "callTool"
IsList == response.op = "listTools"
\* the names given to registerTool so far
Registered == {handleCallTool[i].toolName : i \in 1..Len(handleCallTool)}
DistinctDynamicNames ==
    /\ \A i, j \in 1..Len(handleCallTool) :
          i # j => handleCallTool[i].toolName # handleCallTool[j].toolName
    /\ Registered \cap BuiltinNames = {}
\* an envelope: one text item and the error flag
IsEnvelope(v) ==
    /\ DOMAIN v = {"content", "isError"}
    /\ Len(v.content) = 1
    /\ v.content[1].type = "text"
\* what the text of an envelope encodes
Payload(v) == v.content[1].text.json
ErrorEnvelope(v) == IsEnvelope(v) /\ v.isError /\ Payload(v).t = "string"
Mentions(v, s) == Includes(Payload(v).v, s)
\* the message of a thrown value, as the envelope reports it
MessageOf(thrown) == IF thrown.t = "error" THEN thrown.message ELSE thrown.v
\* the last registration of a name among the wrappers a request goes through
LayerIndex(layers, name) ==
    CHOOSE i \in 1..Len(layers) :
        /\ layers[i].toolName = name
        /\ \A j \in (i + 1)..Len(layers) : layers[j].toolName # name
HasLayer(layers, name) == \E i \in 1..Len(layers) : layers[i].toolName = name
BuiltinSchema(name) ==
    BuiltinTools[CHOOSE i \in 1..Len(BuiltinTools) : BuiltinTools[i].name = name].schema
NameSeq(tools) == [i \in 1..Len(tools) |-> tools[i].name]
CustomCalls(calls) == SelectSeq(calls, LAMBDA c : c.kind = "custom")
BuiltinCalls(calls) == SelectSeq(calls, LAMBDA c : c.kind = "builtin")
ServiceCalls(calls) == SelectSeq(calls, LAMBDA c : c.kind = "service")

\* C1: after registerTool(T, ...) on a constructed server, a list-tools
\* request that arrives through the handler installed at construction lists
\* T, and a call-tool request for T with valid arguments runs T's handler.
C1_RegisteredToolIsServed ==
    /\ (IsList /\ response.via = "protocol") =>
          /\ ~response.threw
          /\ \A i \in 1..Len(handleListTools) :
                \E j \in 1..Len(response.value.tools) :
                    response.value.tools[j].name = handleListTools[i].name
    /\ (/\ IsCall /\ response.via = "protocol"
        /\ response.request.name \in Registered \ BuiltinNames
        /\ ~validateInput(handleCallTool[LayerIndex(handleCallTool, response.request.name)].inputSchema,
                          response.request.arguments).threw) =>
          \E k \in 1..Len(response.calls) :
              /\ response.calls[k].kind = "custom"
              /\ response.calls[k].name = response.request.name[1]

\* C2 as stated: call-tool returns one envelope and never raises; a handler
\* that throws gives isError = TRUE with the tool name and the message; a
\* handler that returns gives isError = FALSE with the returned value.  Stated
\* for the requests the installed handler serves.
C2_EnvelopeFollowsHandler ==
    (IsCall /\ response.via = "protocol") =>
        /\ ~response.threw
        /\ IsEnvelope(response.value)
        /\ (response.fn.ran /\ response.fn.threw) =>
              /\ ErrorEnvelope(response.value)
              /\ Mentions(response.value, response.request.name)
              /\ Mentions(response.value, MessageOf(response.fn.value))
        /\ (response.fn.ran /\ ~response.fn.threw) =>
              /\ ~response.value.isError
              /\ Payload(response.value) = response.fn.value

\* C2 amended: call-tool returns one envelope and never raises; a handler
\* that throws gives isError = TRUE with the tool name and the message; a
\* handler that returns a value JSON can carry gives isError = FALSE with that
\* value; a handler that returns a value JSON cannot carry gives
\* isError = TRUE with the tool name.
C2_EnvelopeFollowsSerializableResult ==
    IsCall =>
        /\ ~response.threw
        /\ IsEnvelope(response.value)
        /\ (response.fn.ran /\ response.fn.threw) =>
              /\ ErrorEnvelope(response.value)
              /\ Mentions(response.value, response.request.name)
              /\ Mentions(response.value, MessageOf(response.fn.value))
        /\ (response.fn.ran /\ ~response.fn.threw /\ Serializable(response.fn.value)) =>
              /\ ~response.value.isError
              /\ Payload(response.value) = response.fn.value
        /\ (response.fn.ran /\ ~response.fn.threw /\ ~Serializable(response.fn.value)) =>
              /\ ErrorEnvelope(response.value)
              /\ Mentions(response.value, response.request.name)
C2_Witness ==
    /\ IsCall /\ response.via = "protocol"
    /\ response.fn.ran /\ ~response.fn.threw /\ ~Serializable(response.fn.value)
    /\ response.value.isError

\* C3: a call-tool for a name that is neither built-in nor registered
\* returns an error envelope that names the tool, and changes neither the
\* record store nor the tool registry.
C3_UnknownToolIsAnError ==
    [][(response'.op = "callTool" /\ response'.request.name \notin BuiltinNames \cup Registered) =>
          /\ ~response'.threw
          /\ ErrorEnvelope(response'.value)
          /\ Mentions(response'.value, response'.request.name)
          /\ UNCHANGED <<resources, data, uuidCount, handleListTools, handleCallTool,
                         requestHandlers>>]_vars
C3_Witness ==
    /\ IsCall /\ response.request.name \notin BuiltinNames \cup Registered
    /\ response.via = "instance"
    /\ Len(handleCallTool) >= 2
    /\ recordCount(data) >= 1
    /\ response.value.isError

\* C4: after registerTool calls with distinct names, list-tools returns the
\* six built-in tools in their fixed order, then the registered tools in
\* registration order.
C4_ListingOrder ==
    (IsList /\ DistinctDynamicNames) =>
        /\ ~response.threw
        /\ NameSeq(response.value.tools) = NameSeq(BuiltinTools) \o NameSeq(handleListTools)

\* C5: with N tools of distinct, non-built-in names registered, a call-tool
\* for Ti with valid arguments runs the handler of Ti exactly once and no
\* other registered or built-in handler.
C5_EachToolRunsItsOwnHandler ==
    \A i \in 1..Len(handleCallTool) :
        (/\ IsCall /\ DistinctDynamicNames
         /\ response.request.name = handleCallTool[i].toolName
         /\ ~validateInput(handleCallTool[i].inputSchema, response.request.arguments).threw) =>
            /\ Len(CustomCalls(response.calls)) = 1
            /\ CustomCalls(response.calls)[1].hid = handleCallTool[i].handler.hid
            /\ BuiltinCalls(response.calls) = <<>>

\* C6: after any registerTool calls, a call-tool for a built-in name is
\* never answered as an unknown tool, and when no tool was registered under
\* that name it does what the built-in does.
C6_BuiltinsAlwaysResolve ==
    (IsCall /\ response.request.name \in BuiltinNames) =>
        /\ ~response.threw
        /\ response.fn.ran
        /\ ~Mentions(response.value, <<"Unknown tool: ">>)
        /\ response.request.name \notin Registered =>
              /\ response.calls[1] = Call("builtin", response.request.name[1], 0)
              /\ CustomCalls(response.calls) = <<>>
              /\ response.value = callToolMethod(response.before, response.request).value
              /\ Store = callToolMethod(response.before, response.request).store
C6_Witness ==
    /\ IsCall /\ response.via = "instance"
    /\ Len(handleCallTool) >= 2
    /\ response.request.name \in BuiltinNames \ Registered
    /\ ~response.value.isError
    /\ Store # response.before

\* C7: after registerTool with a name already in use (a built-in name or an
\* earlier registration), list-tools has exactly one entry for that name, and
\* it describes the tool that call-tool invokes for that name.
InUseTwice(name) ==
    \/ name \in BuiltinNames
    \/ \E i, j \in 1..Len(handleCallTool) :
          i # j /\ handleCallTool[i].toolName = name /\ handleCallTool[j].toolName = name
Invoked(via, name) ==
    IF HasLayer(callToolHandler(via), name)
    THEN handleListTools[LayerIndex(callToolHandler(via), name)].description
    ELSE BuiltinTools[CHOOSE i \in 1..Len(BuiltinTools) : BuiltinTools[i].name = name].description
C7_OneEntryPerName ==
    \A name \in Registered :
        (IsList /\ ~response.threw /\ InUseTwice(name)) =>
            LET entries == SelectSeq(response.value.tools, LAMBDA t : t.name = name)
            IN /\ Len(entries) = 1
               /\ entries[1].description = Invoked(response.via, name)

\* C8: when the arguments fail the input schema of the tool a call-tool
\* resolves to, the result is an error envelope that lists every violated
\* path with its message, no data-service operation and no registered handler
\* runs, and the record store is unchanged.
Resolves(via, name) == HasLayer(callToolHandler(via), name) \/ name \in BuiltinNames
ResolvedSchema(via, name) ==
    IF HasLayer(callToolHandler(via), name)
    THEN callToolHandler(via)[LayerIndex(callToolHandler(via), name)].inputSchema
    ELSE BuiltinSchema(name)
\* a top-level field the arguments get wrong: missing though required, or
\* of another type than declared
HasType(type, x) ==
    CASE type.z = "string" -> x.t = "string"
      [] type.z = "number" -> x.t = "number"
      [] type.z \in {"record", "object"} -> x.t = "object"
      [] type.z = "array" -> x.t = "array"
      [] OTHER -> TRUE
WrongFields(schema, arguments) ==
    IF schema.z # "object" \/ arguments.t # "object" THEN {}
    ELSE {schema.shape[i].name : i \in {j \in 1..Len(schema.shape) :
              LET f == schema.shape[j]
                  x == Prop(arguments.o, f.name)
              IN IF x.t = "undefined" THEN ~f.optional ELSE ~HasType(f.type, x)}}
C8_EveryViolationReported ==
    (/\ IsCall /\ Resolves(response.via, response.request.name)
     /\ zodIssues(ResolvedSchema(response.via, response.request.name),
                  response.request.arguments, <<>>) # <<>>) =>
        LET schema == ResolvedSchema(response.via, response.request.name)
            issues == zodIssues(schema, response.request.arguments, <<>>)
        IN /\ ~response.threw
           /\ ErrorEnvelope(response.value)
           /\ \A i \in 1..Len(issues) :
                 Mentions(response.value,
                          join([j \in 1..Len(issues[i].path) |-> <<issues[i].path[j]>>], ".")
                          \o <<": ">> \o issues[i].message)
           /\ \A f \in WrongFields(schema, response.request.arguments) :
                 Mentions(response.value, <<f, ": ">>)
           /\ ServiceCalls(response.calls) = <<>>
           /\ CustomCalls(response.calls) = <<>>
           /\ Store = response.before
C8_Witness ==
    /\ IsCall /\ response.via = "protocol"
    /\ Resolves(response.via, response.request.name)
    /\ Cardinality(WrongFields(ResolvedSchema(response.via, response.request.name),
                               response.request.arguments)) >= 2
    /\ response.value.isError
    /\ recordCount(data) >= 1

\* C9: in every state of the record store no two records of a resource have
\* the same id field, and the id field of every record is the key the store
\* holds it under.
C9_IdsUniqueAndKeyed ==
    \A r \in 1..Len(data) :
        LET collection == data[r].v
        IN /\ \A i \in 1..Len(collection) : Prop(collection[i].v, "id") = collection[i].k
           /\ \A i, j \in 1..Len(collection) :
                 i # j => Prop(collection[i].v, "id") # Prop(collection[j].v, "id")

\* C10: queryResource, createRecord, updateRecord and deleteRecord, and the
\* record tools built on them, fail with a resource-not-found error on a URI
\* that was never registered, and leave the resource map and every record
\* collection as they were; no collection appears for that URI.
RecordToolNames == BuiltinNames \ {<<"get_record">>}
C10_UnregisteredUriIsRejected ==
    /\ (/\ response.op \in {"queryResource", "createRecord", "updateRecord", "deleteRecord"}
        /\ ~MapHas(response.before.resources, response.input.uri)) =>
          /\ response.threw
          /\ response.value.t = "error"
          /\ Includes(response.value.message, <<"Resource not found: ">> \o response.input.uri)
          /\ Store = response.before
          /\ ~MapHas(data, response.input.uri)
    /\ (/\ IsCall /\ response.request.name \in RecordToolNames
        /\ zodIssues(BuiltinSchema(response.request.name), response.request.arguments, <<>>) = <<>>
        /\ ~MapHas(response.before.resources, response.request.arguments.o.resourceUri.v)) =>
          /\ ErrorEnvelope(response.value)
          /\ Mentions(response.value,
                      <<"Resource not found: ">> \o response.request.arguments.o.resourceUri.v)
          /\ Store = response.before
          /\ ~MapHas(data, response.request.arguments.o.resourceUri.v)
C10_Witness ==
    /\ response.op = "createRecord"
    /\ ~MapHas(response.before.resources, response.input.uri)
    /\ response.threw
    /\ recordCount(data) >= 1

\* C11: updateRecord on a registered resource that holds no record with
\* that id fails with a record-not-found error and leaves every resource and
\* every record as it was.
C11_UpdateOfMissingRecordFails ==
    (/\ response.op = "updateRecord"
     /\ MapHas(response.before.resources, response.input.uri)
     /\ ~MapHas(MapGet(response.before.data, response.input.uri), response.input.id)) =>
        /\ response.threw
        /\ response.value.t = "error"
        /\ response.value.message = <<"Record not found: ">> \o response.input.id.v
        /\ Store = response.before
C11_Witness ==
    /\ response.op = "updateRecord"
    /\ MapHas(response.before.resources, response.input.uri)
    /\ ~MapHas(MapGet(response.before.data, response.input.uri), response.input.id)
    /\ recordCount(data) >= 1
    /\ response.threw

\* the call i in flight, what it asks for and how it ended
IsTool(i, name) == inflight[i].request.name = <<name>>
UriOf(i) == inflight[i].request.arguments.o.resourceUri.v
IdOf(i) == inflight[i].request.arguments.o.recordId
Succeeded(i) == ~inflight[i].threw /\ ~inflight[i].value.isError
HeldBefore(i) ==
    /\ MapHas(inflight[i].before.resources, UriOf(i))
    /\ MapHas(MapGet(inflight[i].before.data, UriOf(i)), IdOf(i))
\* a create of the same id takes effect between the calls i and j
CreatedBetween(i, j) ==
    \E k \in InvokedCalls :
        /\ IsTool(k, "create_record")
        /\ inflight[i].seq < inflight[k].seq /\ inflight[k].seq < inflight[j].seq
        /\ UriOf(k) = UriOf(i)
        /\ Prop(inflight[k].request.arguments.o.data.o, "id") = IdOf(i)

\* C12: a delete of a record the resource holds returns true and removes
\* exactly that record; a delete of a record it does not hold fails with
\* record-not-found and changes nothing; of two deletes of the same record,
\* in whatever order their turns come and with no create of the id between
\* them, exactly one returns true and the other fails.
C12_DeleteOnceThenNotFound ==
    /\ \A i \in InvokedCalls :
          (IsTool(i, "delete_record") /\ MapHas(inflight[i].before.resources, UriOf(i))) =>
              LET c == inflight[i]
                  collection == MapGet(c.before.data, UriOf(i))
              IN /\ HeldBefore(i) =>
                       /\ Succeeded(i)
                       /\ Payload(c.value) = Obj([success |-> Bool(TRUE), id |-> IdOf(i)])
                       /\ c.after = [c.before EXCEPT !.data = MapSet(c.before.data, UriOf(i),
                              SelectSeq(collection, LAMBDA e : e.k # IdOf(i)))]
                       /\ Len(MapGet(c.after.data, UriOf(i))) = Len(collection) - 1
                 /\ ~HeldBefore(i) =>
                       /\ ~c.threw
                       /\ ErrorEnvelope(c.value)
                       /\ Mentions(c.value, <<"Record not found: ">> \o IdOf(i).v)
                       /\ c.after = c.before
    /\ \A i, j \in InvokedCalls :
          (/\ IsTool(i, "delete_record") /\ IsTool(j, "delete_record")
           /\ UriOf(i) = UriOf(j) /\ IdOf(i) = IdOf(j)
           /\ inflight[i].seq < inflight[j].seq
           /\ HeldBefore(i) /\ ~CreatedBetween(i, j)) =>
              Succeeded(i) /\ ~Succeeded(j)
\* the second delete to arrive is the first to take effect
C12_Witness ==
    /\ Len(inflight) >= 2
    /\ IsTool(1, "delete_record") /\ IsTool(2, "delete_record")
    /\ inflight[1].pc = "settled" /\ inflight[2].pc = "settled"
    /\ inflight[2].seq < inflight[1].seq
    /\ HeldBefore(2) /\ Succeeded(2) /\ ~Succeeded(1)

\* C13: createRecord with data that has no id stores the record under a
\* generated id that no record of the resource has, as key or as id field;
\* the resource holds one record more and the others are as they were.
C13_GeneratedIdIsFresh ==
    (/\ response.op = "createRecord" /\ ~response.threw
     /\ "id" \notin DOMAIN response.input.data) =>
        LET earlier == MapGet(response.before.data, response.input.uri)
            later == MapGet(data, response.input.uri)
            id == response.value.id
        IN /\ \A i \in 1..Len(earlier) : earlier[i].k # id /\ Prop(earlier[i].v, "id") # id
           /\ Len(later) = Len(earlier) + 1
           /\ SubSeq(later, 1, Len(earlier)) = earlier
           /\ later[Len(later)] = [k |-> id, v |-> response.value]
\* the second of two creates without an id
C13_Witness ==
    /\ response.op = "createRecord" /\ ~response.threw
    /\ "id" \notin DOMAIN response.input.data
    /\ uuidCount = 2
    /\ Len(MapGet(data, response.input.uri)) = 2
    /\ \A i \in 1..2 : "name" \notin DOMAIN MapGet(data, response.input.uri)[i].v
                       /\ Truthy(MapGet(data, response.input.uri)[i].v.id)

\* the record an update found, and the fields the store sets itself
Existing == MapGet(MapGet(response.before.data, response.input.uri), response.input.id)
StoreSet == {"id", "updatedAt"}
IsUpdate == response.op = "updateRecord" /\ ~response.threw

\* C14: a successful updateRecord stores and returns a record in which every
\* field of the data has the value of the data, every other field keeps its
\* value, the id is the id the record was addressed by even when the data
\* holds another, and updatedAt is the stamp of the call; the keys of the
\* resource and its other records are as they were.
C14_UpdateMergesOverExisting ==
    IsUpdate =>
        LET record == response.value
            d == response.input.data
            earlier == MapGet(response.before.data, response.input.uri)
            later == MapGet(data, response.input.uri)
        IN /\ DOMAIN record = DOMAIN Existing \cup DOMAIN d \cup StoreSet
           /\ \A k \in DOMAIN d \ StoreSet : record[k] = d[k]
           /\ \A k \in DOMAIN Existing \ (DOMAIN d \cup StoreSet) : record[k] = Existing[k]
           /\ record.id = response.input.id
           /\ record.updatedAt = Timestamp
           /\ MapKeys(later) = MapKeys(earlier)
           /\ MapGet(later, response.input.id) = record
           /\ \A i \in 1..Len(earlier) :
                 earlier[i].k # response.input.id => later[i] = earlier[i]
\* an update whose data holds another id, made after the clock has advanced
C14_Witness ==
    /\ IsUpdate
    /\ "id" \in DOMAIN response.input.data
    /\ response.input.data.id # response.input.id
    /\ response.value.updatedAt # Existing.updatedAt
    /\ Len(MapGet(data, response.input.uri)) = 2

\* C15: after an update the createdAt of the record is the one it had, and
\* its updatedAt is the stamp of the store, whatever the data of the update
\* holds under createdAt or updatedAt.
C15_TimestampsAreTheStores ==
    IsUpdate =>
        /\ response.value.createdAt = Existing.createdAt
        /\ response.value.updatedAt = Timestamp

\* the call that took effect last
LastInvoked == CHOOSE i \in InvokedCalls : inflight[i].seq = Cardinality(InvokedCalls)
DataOf(i) == inflight[i].request.arguments.o.data.o

\* C16: whatever the interleaving of the calls in flight, each call's
\* data-service operation takes effect in one piece: it leaves the store and
\* gives the answer that the call alone would on the store it found, the next
\* operation finds the store the previous one left, and the store is what the
\* last one left, so the store is the result of the operations in the order
\* they took effect.  Of two updates of one record that follow each other,
\* the later decides the fields both set and a field only the earlier set is
\* kept.
C16_OperationsAreAtomic ==
    /\ \A i \in InvokedCalls :
          /\ inflight[i].after = callToolMethod(inflight[i].before, inflight[i].request).store
          /\ inflight[i].value = callToolMethod(inflight[i].before, inflight[i].request).value
    /\ \A i, j \in InvokedCalls :
          inflight[j].seq = inflight[i].seq + 1 => inflight[j].before = inflight[i].after
    /\ InvokedCalls # {} => Store = inflight[LastInvoked].after
    /\ \A i, j \in InvokedCalls :
          (/\ IsTool(i, "update_record") /\ IsTool(j, "update_record")
           /\ UriOf(i) = UriOf(j) /\ IdOf(i) = IdOf(j)
           /\ inflight[j].seq = inflight[i].seq + 1
           /\ Succeeded(i) /\ Succeeded(j)) =>
              LET record == MapGet(MapGet(inflight[j].after.data, UriOf(j)), IdOf(j))
              IN /\ \A k \in DOMAIN DataOf(j) \ StoreSet : Prop(record, k) = DataOf(j)[k]
                 /\ \A k \in DOMAIN DataOf(i) \ (DOMAIN DataOf(j) \cup StoreSet) :
                       Prop(record, k) = DataOf(i)[k]
\* two updates of one record, the second to arrive taking effect first
C16_Witness ==
    /\ Len(inflight) >= 2
    /\ IsTool(1, "update_record") /\ IsTool(2, "update_record")
    /\ inflight[1].pc = "settled" /\ inflight[2].pc = "settled"
    /\ inflight[2].seq = 1 /\ inflight[1].seq = 2
    /\ Succeeded(1) /\ Succeeded(2)
    /\ "tag" \in DOMAIN DataOf(2) /\ "tag" \notin DOMAIN DataOf(1)
    /\ DataOf(1).name # DataOf(2).name
    /\ MapGet(MapGet(data, UriOf(1)), IdOf(1)).name = DataOf(1).name
    /\ MapGet(MapGet(data, UriOf(1)), IdOf(1)).tag = DataOf(2).tag


\* the last operation is a query that returned
IsQuery == response.op = "queryResource" /\ ~response.threw
\* the records the collection held, in insertion order, and the records returned
Held == MapValues(MapGet(response.before.data, response.input.uri))
Found == [i \in 1..Len(response.value.a) |-> response.value.a[i].o]
Searching(query) == "searchTerm" \in DOMAIN query /\ query.searchTerm.v # <<>>
Filtering(query) == "filter" \in DOMAIN query
Sorting(query) == "sort" \in DOMAIN query
Limit(query) ==
    IF "maxRecords" \in DOMAIN query /\ query.maxRecords.n > 0 THEN query.maxRecords.n ELSE 0
Admitted(record, query) ==
    /\ Searching(query) => searchMatches(record, query)
    /\ Filtering(query) => filterMatches(record, query)
\* the same query without its maxRecords, and what it returns
Unlimited(query) == [key \in DOMAIN query \ {"maxRecords"} |-> query[key]]
Whole(st, uri, query) ==
    [i \in 1..Len(queryResource(st, uri, Unlimited(query)).value.a) |->
        queryResource(st, uri, Unlimited(query)).value.a[i].o]
\* whole holds the admitted records of held and no others, in the order of
\* held when the query does not sort and in the order of the comparator when
\* it does
Staged(whole, held, query) ==
    /\ Len(whole) = Len(SelectSeq(held, LAMBDA record : Admitted(record, query)))
    /\ \A i \in 1..Len(held) :
          Admitted(held[i], query) <=> \E j \in 1..Len(whole) : whole[j] = held[i]
    /\ ~Sorting(query) => whole = SelectSeq(held, LAMBDA record : Admitted(record, query))
    /\ Sorting(query) =>
          \A i \in 1..(Len(whole) - 1) :
              sortComparator(whole[i], whole[i + 1], query.sort.a) <= 0
\* found is the first min(n, m) records of whole for a positive limit n, and
\* whole otherwise
Cut(found, whole, n) ==
    IF n > 0 THEN found = SubSeq(whole, 1, IF n < Len(whole) THEN n ELSE Len(whole))
    ELSE found = whole

\* C17: queryResource searches, then filters, then sorts, then limits: the
\* query without maxRecords returns exactly the records that pass the search
\* and the filter, ordered by the sort; with a positive maxRecords n the result
\* is the first min(n, m) of those m records, and with maxRecords zero,
\* negative or absent it is all of them.
C17_SearchFilterSortLimit ==
    IsQuery =>
        /\ Staged(Whole(response.before, response.input.uri, response.input.query),
                  Held, response.input.query)
        /\ Cut(Found, Whole(response.before, response.input.uri, response.input.query),
               Limit(response.input.query))
\* a sorted query cut to fewer records than it admits, whose first record is
\* not the first admitted record of the collection
C17_Witness ==
    /\ IsQuery
    /\ Sorting(response.input.query)
    /\ Limit(response.input.query) > 0
    /\ Limit(response.input.query) <
          Len(SelectSeq(Held, LAMBDA record : Admitted(record, response.input.query)))
    /\ Len(Found) = Limit(response.input.query)
    /\ Found[1] # SelectSeq(Held, LAMBDA record : Admitted(record, response.input.query))[1]


\* the last operation is a call of list_records or search_records that the
\* server answered with records
IsQueryCall ==
    /\ IsCall
    /\ response.request.name \in {<<"list_records">>, <<"search_records">>}
    /\ ~response.threw
    /\ ~response.value.isError

\* C18: list_records and search_records called without a maxRecords argument
\* return at most DefaultMaxRecords records, the default their input schemas
\* describe.
C18_DefaultMaxRecords ==
    (IsQueryCall /\ "maxRecords" \notin DOMAIN response.request.arguments.o) =>
        Len(Payload(response.value).a) <= DefaultMaxRecords


\* the last operation is a query with a filter map and nothing else
IsFilterQuery == IsQuery /\ DOMAIN response.input.query = {"filter"}
FilterOf == response.input.query.filter.o
\* a and b are of one primitive type and are the same value of it
SameValue(a, b) ==
    /\ a.t = b.t
    /\ a.t \in {"string", "number", "boolean", "null", "undefined"}
    /\ a.v = b.v
\* the record has, at every key of the filter, the value the filter has
Passes(record, filter) ==
    \A key \in DOMAIN filter :
        SameValue(IF key \in DOMAIN record THEN record[key] ELSE Undefined, filter[key])

\* C19: with a filter map the result holds exactly the records whose value at
\* every filter key is strictly equal to the filter value (same type, same
\* value, case-sensitive, no conversion), in collection order; fields the
\* filter does not name play no part, and an empty filter admits every record.
C19_FilterIsStrictEquality ==
    IsFilterQuery =>
        /\ Found = SelectSeq(Held, LAMBDA record : Passes(record, FilterOf))
        /\ FilterOf = EmptyObject => Found = Held
\* a filter that admits a record and rejects another one whose value at the
\* key has the same text in another type or another case
C19_Witness ==
    /\ IsFilterQuery
    /\ Found # <<>>
    /\ \E i \in 1..Len(Held) : \E key \in DOMAIN FilterOf :
          /\ key \in DOMAIN Held[i]
          /\ Held[i][key].t # FilterOf[key].t \/ Held[i][key].v # FilterOf[key].v
          /\ toLowerCase(Held[i][key].v) = toLowerCase(FilterOf[key].v)
          /\ \A j \in 1..Len(Found) : Found[j] # Held[i]


\* the last operation is a query with a searchTerm, with or without fields
IsSearchQuery ==
    /\ IsQuery
    /\ "searchTerm" \in DOMAIN response.input.query
    /\ DOMAIN response.input.query \subseteq {"searchTerm", "fields"}
TermOf == response.input.query.searchTerm.v
\* the characters c and d are one letter, in whatever case, or one character
SameLetter(c, d) ==
    \/ c = d
    \/ \E j \in 1..26 : {c, d} = {LowerCase[j], UpperCase[j]}
\* text holds term at some position, letter for letter without regard to case
Holds(text, term) ==
    \E start \in 0..(Len(text) - Len(term)) :
        \A k \in 1..Len(term) : SameLetter(text[start + k], term[k])
\* the field is one the search looks at
Eligible(key, query) ==
    "fields" \in DOMAIN query => \E i \in 1..Len(query.fields.a) : query.fields.a[i].v = <<key>>
\* the record has an eligible field of type string, number or boolean whose
\* string form holds the term
Hit(record, query) ==
    \E key \in DOMAIN record :
        /\ Eligible(key, query)
        /\ record[key].t \in {"string", "number", "boolean"}
        /\ Holds(record[key].v, query.searchTerm.v)

\* C20: with a non-empty searchTerm the result holds exactly the records with
\* an eligible field (any field, or one named in fields when fields is given)
\* of type string, number or boolean whose string form contains the term
\* without regard to case; values of other types never match; an empty
\* searchTerm returns every record and is not an error.
C20_SearchIsCaseInsensitiveSubstring ==
    /\ IsSearchQuery =>
          Found = IF TermOf = <<>> THEN Held
                  ELSE SelectSeq(Held, LAMBDA record : Hit(record, response.input.query))
    /\ (response.op = "queryResource" /\ DOMAIN response.input.query = {"searchTerm"}
        /\ response.input.query.searchTerm.v = <<>> /\ response.threw) =>
          resourceMissing(response.before, response.input.uri)
\* a search that admits a record only through a difference of case and
\* rejects a record that holds the term only in a value of another type
C20_Witness ==
    /\ IsSearchQuery
    /\ TermOf # <<>>
    /\ \E j \in 1..Len(Found) : \E key \in DOMAIN Found[j] :
          /\ Found[j][key].t = "string"
          /\ Holds(Found[j][key].v, TermOf)
          /\ ~Includes(Found[j][key].v, TermOf)
    /\ \E i \in 1..Len(Held) :
          /\ \A j \in 1..Len(Found) : Found[j] # Held[i]
          /\ \E key \in DOMAIN Held[i] :
                /\ Held[i][key].t = "array"
                /\ \E n \in 1..Len(Held[i][key].a) : Held[i][key].a[n].v = TermOf


\* the last operation is a query with a sort list that returned
IsSortQuery == IsQuery /\ "sort" \in DOMAIN response.input.query
SortOf == response.input.query.sort.a
FieldOf(spec) == spec.o.field.v[1]
Descending(spec) == "direction" \in DOMAIN spec.o /\ spec.o.direction.v = <<"desc">>
\* where a record stood in the collection
PositionIn(held, record) == CHOOSE i \in 1..Len(held) : held[i] = record
\* the two records have equal keys at the field: both lack it, or both have
\* it and the values are identical or their string forms collate equal
EqualAt(a, b, field) ==
    IF field \in DOMAIN a /\ field \in DOMAIN b
    THEN a[field] = b[field] \/ localeCompare(a[field].v, b[field].v) = 0
    ELSE field \notin DOMAIN a /\ field \notin DOMAIN b
EqualOnAll(a, b, sort) == \A k \in 1..Len(sort) : EqualAt(a, b, FieldOf(sort[k]))

\* C21: sorting is stable: two records with equal keys on every sort spec of
\* the query stand in the result in the relative order they had in the
\* collection.
C21_SortIsStable ==
    IsSortQuery =>
        \A i, j \in 1..Len(Found) :
            (i < j /\ EqualOnAll(Found[i], Found[j], SortOf)) =>
                PositionIn(Held, Found[i]) < PositionIn(Held, Found[j])
\* a sort that moved a record and returned two records with equal keys
C21_Witness ==
    /\ IsSortQuery
    /\ Found # SelectSeq(Held, LAMBDA record : Admitted(record, response.input.query))
    /\ \E i, j \in 1..Len(Found) : i < j /\ EqualOnAll(Found[i], Found[j], SortOf)


\* the last operation is a query with a filter and one descending sort spec
IsFilterSortDesc ==
    /\ IsSortQuery
    /\ DOMAIN response.input.query = {"filter", "sort"}
    /\ Len(SortOf) = 1
    /\ Descending(SortOf[1])
\* the records of the collection that pass the filter
Kept == SelectSeq(Held, LAMBDA record : Passes(record, FilterOf))
Reverse(s) == [i \in 1..Len(s) |-> s[Len(s) + 1 - i]]
\* what the same query returns when its sort spec is ascending
AscendingResult ==
    Whole(response.before, response.input.uri,
          [response.input.query EXCEPT
              !.sort = Arr(<<SortBy(FieldOf(SortOf[1]), "asc")>>)])
AllDefined(records, field) == \A i \in 1..Len(records) : field \in DOMAIN records[i]
AllDistinct(records, field) ==
    \A i, j \in 1..Len(records) : i # j => records[i][field] # records[j][field]
\* no two values of the field have string forms that collate equal
AllCollateApart(records, field) ==
    \A i, j \in 1..Len(records) :
        i # j => localeCompare(records[i][field].v, records[j][field].v) # 0
\* the collection holds u1 (admin), u2 (user), u3 (user) and the query is
\* filter {role: "user"}, sort [{field: "id", direction: "desc"}]
IsExample ==
    /\ IsFilterSortDesc
    /\ [i \in 1..Len(Held) |-> Held[i].id] = <<uid(1), uid(2), uid(3)>>
    /\ FilterOf = [role |-> User]
    /\ FieldOf(SortOf[1]) = "id"
ExampleHolds ==
    IsExample => [i \in 1..Len(Found) |-> Found[i].id] = <<uid(3), uid(2)>>

\* C22: on u1 (admin), u2 (user), u3 (user) the query filter {role: "user"},
\* sort id descending returns [u3, u2]; in general a filter with a descending
\* sort on a field whose values are all defined and whose string forms all
\* collate apart returns exactly the records that pass the filter, in the
\* reverse of their ascending order on the field.
C22_FilterThenDescending ==
    /\ ExampleHolds
    /\ (IsFilterSortDesc /\ AllDefined(Kept, FieldOf(SortOf[1]))
        /\ AllCollateApart(Kept, FieldOf(SortOf[1]))) =>
          /\ Found = Reverse(AscendingResult)
          /\ Len(Found) = Len(Kept)
          /\ \A i \in 1..Len(Kept) : \E j \in 1..Len(Found) : Found[j] = Kept[i]
          /\ \A i \in 1..(Len(Found) - 1) :
                localeCompare(Found[i][FieldOf(SortOf[1])].v,
                              Found[i + 1][FieldOf(SortOf[1])].v) > 0
\* the example: [u3, u2] returned from u1, u2, u3
C22_Witness ==
    /\ IsExample
    /\ Len(Found) = 2
    /\ Found[1].id = uid(3)
    /\ Found[2].id = uid(2)
\* the statement for every field whose values are all defined and distinct
C22_DistinctValuesReverse ==
    /\ ExampleHolds
    /\ (IsFilterSortDesc /\ AllDefined(Kept, FieldOf(SortOf[1]))
        /\ AllDistinct(Kept, FieldOf(SortOf[1]))) =>
          Found = Reverse(AscendingResult)


\* the store with the collection of the resource replaced by the records
Holding(st, uri, records) ==
    [st EXCEPT !.data = MapSet(st.data, uri,
        [i \in 1..Len(records) |-> [k |-> records[i].id, v |-> records[i]]])]
\* what the query of the last operation returns on the records it returned
FoundAgain ==
    [i \in 1..Len(queryResource(Holding(response.before, response.input.uri, Found),
                                response.input.uri, response.input.query).value.a) |->
        queryResource(Holding(response.before, response.input.uri, Found),
                      response.input.uri, response.input.query).value.a[i].o]
\* the query has no search term, no filter, no sort and no limit, or empty ones
NoCriteria(query) ==
    /\ "searchTerm" \in DOMAIN query => query.searchTerm.v = <<>>
    /\ "filter" \in DOMAIN query => query.filter.o = EmptyObject
    /\ "sort" \in DOMAIN query => query.sort.a = <<>>
    /\ "maxRecords" \notin DOMAIN query
    /\ DOMAIN query \subseteq {"searchTerm", "filter", "sort"}

\* C23: a query without search term, filter, sort and limit returns every
\* record of the resource in stored order, and a query without a limit
\* returns its own result unchanged when it is applied to that result.
C23_IdentityAndIdempotence ==
    /\ (IsQuery /\ NoCriteria(response.input.query)) => Found = Held
    /\ (IsQuery /\ "maxRecords" \notin DOMAIN response.input.query) => FoundAgain = Found
\* a query without a limit that dropped or moved records
C23_Witness ==
    /\ IsQuery
    /\ "maxRecords" \notin DOMAIN response.input.query
    /\ Sorting(response.input.query)
    /\ Len(Found) > 1
    /\ Found # Held
    /\ FoundAgain = Found


IsRegistration == response.op = "registerResource"
IsAlphanumeric(c) == c \in Digits \/ \E j \in 1..26 : LowerCase[j] = c
\* s with every maximal run of non-alphanumeric characters replaced by one
\* separator
Separated(s) ==
    LET kept == SelectSeq([i \in 1..Len(s) |-> i],
                          LAMBDA i : IsAlphanumeric(s[i]) \/ i = 1 \/ IsAlphanumeric(s[i - 1]))
    IN [k \in 1..Len(kept) |-> IF IsAlphanumeric(s[kept[k]]) THEN s[kept[k]] ELSE "-"]

\* C24: registerResource(name) derives the URI as the scheme prefix followed by
\* the lower-cased name with every maximal run of non-alphanumeric characters
\* replaced by one separator.
C24_RunsBecomeOneSeparator ==
    IsRegistration =>
        response.value.uri = resourcePrefix \o Separated(toLowerCase(response.input.name))


\* C25: once a resource is registered its URI stays registered and its name
\* and description never change, whatever operation follows, a further
\* registerResource included.
C25_ResourcesAreImmutable ==
    [][\A i \in 1..Len(resources) :
          /\ MapHas(resources', resources[i].k)
          /\ MapGet(resources', resources[i].k).name = resources[i].v.name
          /\ MapGet(resources', resources[i].k).description = resources[i].v.description]_vars


IsListResources == response.op = "handleListResources"
\* the resources registered when the request was made, in registration order
RegisteredBefore == MapValues(response.before.resources)

\* C26: list-resources returns one entry (uri, name, content type
\* application/json) per registered resource, and an empty list instead of a
\* failure when the data service's listResources fails.
C26_ListResourcesNeverFails ==
    IsListResources =>
        /\ ~response.threw
        /\ DOMAIN response.value = {"resources"}
        /\ response.input.failed => response.value.resources = <<>>
        /\ ~response.input.failed =>
              /\ Len(response.value.resources) = Len(RegisteredBefore)
              /\ \A i \in 1..Len(RegisteredBefore) :
                    response.value.resources[i] =
                        [uri |-> RegisteredBefore[i].uri, name |-> RegisteredBefore[i].name,
                         mimeType |-> "application/json"]
        /\ Store = response.before
\* listResources failed while resources were registered, and the list is empty
C26_Witness ==
    /\ IsListResources
    /\ response.input.failed
    /\ Len(RegisteredBefore) >= 2
    /\ ~response.threw
    /\ response.value.resources = <<>>


IsReadResource == response.op = "handleReadResource"
\* the URI was registered when the request was made
WasRegistered == MapHas(response.before.resources, response.input.uri)

\* C27: read-resource on a registered URI returns one content item whose body
\* is the metadata of the resource (uri, name, description) and not its
\* records; on an unregistered URI the call fails with a not-found error that
\* names the URI; the store is unchanged in both cases.
C27_ReadResourceReturnsMetadata ==
    IsReadResource =>
        /\ Store = response.before
        /\ WasRegistered =>
              /\ ~response.threw
              /\ Len(response.value.contents) = 1
              /\ response.value.contents[1].uri = response.input.uri
              /\ response.value.contents[1].mimeType = "application/json"
              /\ response.value.contents[1].text.json =
                    MapGet(response.before.resources, response.input.uri)
              /\ DOMAIN response.value.contents[1].text.json = {"uri", "name", "description"}
        /\ ~WasRegistered =>
              /\ response.threw
              /\ response.value.t = "error"
              /\ response.value.message = <<"Resource not found: ">> \o response.input.uri
\* the metadata of a resource that holds records has been read
C27_Witness ==
    /\ IsReadResource
    /\ WasRegistered
    /\ MapGet(response.before.data, response.input.uri) # EmptyMap
    /\ ~response.threw
    /\ response.value.contents[1].text.json.name = <<"U", "s">>


\* the two records are ordered by the spec: both have the field and their
\* string forms collate apart, or exactly one of them lacks the field
Differ(a, b, spec) == ~EqualAt(a, b, FieldOf(spec))
\* a stands before b by the spec
Before(a, b, spec) ==
    LET field == FieldOf(spec)
        ascending == IF field \notin DOMAIN a THEN TRUE
                     ELSE IF field \notin DOMAIN b THEN FALSE
                     ELSE localeCompare(a[field].v, b[field].v) < 0
    IN IF Descending(spec) THEN ~ascending ELSE ascending
\* the first spec of the list that orders the pair, 0 when none does
Deciding(a, b, sort) ==
    IF \E k \in 1..Len(sort) : Differ(a, b, sort[k])
    THEN CHOOSE k \in 1..Len(sort) :
            Differ(a, b, sort[k]) /\ \A n \in 1..(k - 1) : ~Differ(a, b, sort[n])
    ELSE 0

\* C28: in a multi-key sort a pair of records is ordered by the first sort
\* spec at which their values differ, later specs being consulted whenever
\* the earlier ones leave the pair unordered (values identical or comparing
\* equal); the pair keeps its original order only when every spec leaves it
\* unordered.
C28_FirstDifferingSpecDecides ==
    IsSortQuery =>
        \A i, j \in 1..Len(Found) :
            i < j =>
                IF Deciding(Found[i], Found[j], SortOf) = 0
                THEN PositionIn(Held, Found[i]) < PositionIn(Held, Found[j])
                ELSE Before(Found[i], Found[j], SortOf[Deciding(Found[i], Found[j], SortOf)])


\* the field of the first sort spec
FirstField == FieldOf(SortOf[1])
Lacks(record, field) == field \notin DOMAIN record
\* the first later spec at which the two records are not identical and their
\* keys are not equal, 0 when the first later spec at which they are not
\* identical leaves them with equal keys, or when there is none
LaterDeciding(a, b, sort) ==
    IF \E k \in 2..Len(sort) :
          /\ ~EqualAt(a, b, FieldOf(sort[k]))
          /\ \A n \in 2..(k - 1) : Prop(a, FieldOf(sort[n])) = Prop(b, FieldOf(sort[n]))
    THEN CHOOSE k \in 2..Len(sort) :
            /\ ~EqualAt(a, b, FieldOf(sort[k]))
            /\ \A n \in 2..(k - 1) : Prop(a, FieldOf(sort[n])) = Prop(b, FieldOf(sort[n]))
    ELSE 0

\* C29: in a sort on field f every record that lacks f stands before all
\* records that have it when the direction is ascending (the default) and
\* after all of them when it is descending; two records that both lack f are
\* ordered by the later specs, or keep their original order.
C29_MissingValuesAtOneEdge ==
    IsSortQuery =>
        \A i, j \in 1..Len(Found) :
            i < j =>
                /\ ~Descending(SortOf[1]) =>
                      ~(Lacks(Found[j], FirstField) /\ ~Lacks(Found[i], FirstField))
                /\ Descending(SortOf[1]) =>
                      ~(Lacks(Found[i], FirstField) /\ ~Lacks(Found[j], FirstField))
                /\ (Lacks(Found[i], FirstField) /\ Lacks(Found[j], FirstField)) =>
                      IF LaterDeciding(Found[i], Found[j], SortOf) = 0
                      THEN PositionIn(Held, Found[i]) < PositionIn(Held, Found[j])
                      ELSE Before(Found[i], Found[j],
                                  SortOf[LaterDeciding(Found[i], Found[j], SortOf)])
\* a descending sort that moved a record without the field behind a record
\* with it, next to another record without the field
C29_Witness ==
    /\ IsSortQuery
    /\ Descending(SortOf[1])
    /\ \E i, j \in 1..Len(Found) :
          /\ i < j
          /\ Lacks(Found[j], FirstField) /\ ~Lacks(Found[i], FirstField)
          /\ PositionIn(Held, Found[j]) < PositionIn(Held, Found[i])
    /\ \E i, j \in 1..Len(Found) :
          i < j /\ Lacks(Found[i], FirstField) /\ Lacks(Found[j], FirstField)


\* the registration that was made last under the name
LastRegistered(name) == handleCallTool[LayerIndex(handleCallTool, name)]

\* C30: after registerTool with a name already in use (a built-in name or an
\* earlier registration), a call-tool for that name with valid arguments runs
\* the handler registered last, and neither the built-in nor an earlier
\* registered handler of that name runs.
C30_LastRegistrationShadows ==
    \A name \in Registered :
        (/\ IsCall /\ response.request.name = name /\ InUseTwice(name)
         /\ ~validateInput(LastRegistered(name).inputSchema, response.request.arguments).threw) =>
            /\ Len(CustomCalls(response.calls)) = 1
            /\ CustomCalls(response.calls)[1].hid = LastRegistered(name).handler.hid
            /\ BuiltinCalls(response.calls) = <<>>

\* the operations that only read, by the response they leave
ReadToolNames == {<<"list_records">>, <<"search_records">>, <<"get_record">>}
ReadOnly(r) ==
    \/ r.op \in {"queryResource", "handleListResources", "handleReadResource"}
    \/ r.op = "callTool" /\ r.request.name \in ReadToolNames
\* two responses to the same operation with the same input
SameRead(r, s) ==
    /\ r.op = s.op
    /\ IF r.op = "callTool" THEN r.request = s.request ELSE r.input = s.input

\* C31: queryResource, list_records, search_records, get_record,
\* list-resources and read-resource leave the store as it was (the same
\* resources, the same records with the same fields in the same stored
\* order), also when the query sorts; and a read repeated with the same
\* input on the unchanged store gives the same result.
C31_ReadsLeaveTheStore ==
    [][/\ ReadOnly(response') => UNCHANGED <<resources, data, uuidCount>>
       /\ (ReadOnly(response) /\ ReadOnly(response') /\ SameRead(response, response')
           /\ response'.before = response.before) =>
             /\ response'.threw = response.threw
             /\ response'.value = response.value]_vars
\* a sorted query returned the records in another order than the stored
\* one, and the stored order is what it was
C31_Witness ==
    /\ response.op = "queryResource" /\ ~response.threw
    /\ "sort" \in DOMAIN response.input.query
    /\ Len(response.value.a) >= 2
    /\ [i \in 1..Len(response.value.a) |-> response.value.a[i].o]
          # MapValues(MapGet(data, response.input.uri))
    /\ Store = response.before

\* a get_record call whose arguments pass the schema
IsGetRecord ==
    /\ IsCall /\ response.request.name = <<"get_record">>
    /\ ~validateInput(GetRecordArgsSchema, response.request.arguments).threw
AskedUri == response.request.arguments.o.resourceUri.v
AskedId == response.request.arguments.o.recordId

\* C32: get_record on a registered resource returns a success envelope with
\* the requested recordId and the name of the resource, whether or not a
\* record with that id is stored; on an unregistered resource it returns an
\* error envelope; it calls getResource only and leaves the store as it was.
C32_GetRecordIsAPlaceholder ==
    IsGetRecord =>
        /\ ~response.threw
        /\ IsEnvelope(response.value)
        /\ ServiceCalls(response.calls) = <<Call("service", "getResource", 0)>>
        /\ Store = response.before
        /\ IF MapHas(response.before.resources, AskedUri)
           THEN /\ ~response.value.isError
                /\ Payload(response.value) =
                      Obj([id |-> AskedId,
                           resource |-> Str(MapGet(response.before.resources, AskedUri).name)])
           ELSE /\ ErrorEnvelope(response.value)
                /\ Mentions(response.value, <<"get_record">>)
                /\ Mentions(response.value, ResourceNotFound(AskedUri).message)
\* get_record succeeded for an id that the seeded resource does not hold
C32_Witness ==
    /\ IsGetRecord /\ MapHas(resources, AskedUri)
    /\ MapGet(data, AskedUri) # EmptyMap
    /\ ~MapHas(MapGet(data, AskedUri), AskedId)
    /\ ~response.value.isError
    /\ Payload(response.value).o.id = AskedId

\* the URIs of the entries listResources() returns, in the order it returns
\* them
ListedUris ==
    [i \in 1..Len(listResources(Store).value) |-> listResources(Store).value[i].uri]
NoUriTwice(uris) == \A i, j \in 1..Len(uris) : uris[i] = uris[j] => i = j

\* C33: listResources returns one entry per registered URI, in the order in
\* which the URIs were first registered: registering a name whose URI is new
\* adds its entry at the end, registering a name whose URI is already there
\* neither adds an entry nor moves one, no other operation changes the
\* listing, and list-resources reports the entries in that order.
C33_ListedInFirstRegistrationOrder ==
    [][/\ NoUriTwice(ListedUris')
       /\ response'.op = "registerResource" =>
             /\ ~response'.threw
             /\ ListedUris' = IF \E i \in 1..Len(ListedUris) : ListedUris[i] = response'.value.uri
                              THEN ListedUris
                              ELSE Append(ListedUris, response'.value.uri)
       /\ response'.op # "registerResource" => ListedUris' = ListedUris
       /\ (response'.op = "handleListResources" /\ ~response'.input.failed) =>
             [i \in 1..Len(response'.value.resources) |-> response'.value.resources[i].uri]
                = ListedUris]_vars
\* a name was registered whose URI was already the first of several, under
\* another name, and the listing still starts with it
C33_Witness ==
    /\ IsRegistration
    /\ Len(response.before.resources) >= 2
    /\ response.before.resources[1].k = response.value.uri
    /\ response.before.resources[1].v.name # response.value.name
    /\ Len(ListedUris) = Len(response.before.resources)
    /\ ListedUris[1] = response.value.uri

\* where the i-th call received is
Pc(i) == IF i <= Len(inflight) THEN inflight[i].pc ELSE "none"

\* C34: a call whose data-service operation has completed eventually yields
\* its envelope; a call whose operation never completes stays without an
\* envelope for ever; both hold whatever the other calls do, so a call that
\* hangs keeps no call received before or after it from yielding its
\* envelope.
C34_HungCallsHangAlone ==
    /\ [][\A i \in 1..Len(inflight) : inflight[i].pc = "hung" => inflight'[i].pc = "hung"]_vars
    /\ \A i \in 1..MaxCalls :
          (Pc(i) = "awaiting") ~> (Pc(i) = "settled" /\ IsEnvelope(inflight[i].value))
\* the first call hangs, and a call received and invoked after it has
\* yielded a success envelope
C34_Witness ==
    /\ Pc(1) = "hung" /\ Pc(2) = "settled"
    /\ inflight[2].seq > inflight[1].seq
    /\ IsEnvelope(inflight[2].value) /\ ~inflight[2].value.isError

\* the URIs a store has metadata for, and those it has a collection for
MetadataUris(st) == {st.resources[i].k : i \in 1..Len(st.resources)}
CollectionUris(st) == {st.data[i].k : i \in 1..Len(st.data)}

\* C35: registerResource for a name whose URI is already registered stores
\* the new metadata under that URI and leaves the URI with an empty record
\* collection, whatever it held; the metadata and the records of every other
\* resource are as they were.
C35_ReregistrationEmptiesTheResource ==
    (IsRegistration /\ MapHas(response.before.resources, response.value.uri)) =>
        /\ ~response.threw
        /\ MapGet(resources, response.value.uri) =
              [uri |-> response.value.uri, name |-> response.input.name,
               description |-> response.input.description]
        /\ MapGet(data, response.value.uri) = EmptyMap
        /\ MetadataUris(Store) = MetadataUris(response.before)
        /\ CollectionUris(Store) = CollectionUris(response.before)
        /\ \A uri \in CollectionUris(response.before) \ {response.value.uri} :
              /\ MapGet(data, uri) = MapGet(response.before.data, uri)
              /\ MapGet(resources, uri) = MapGet(response.before.resources, uri)
\* a resource that held a record was registered again under another name
\* while a second resource held a record too
C35_Witness ==
    /\ IsRegistration /\ MapHas(response.before.resources, response.value.uri)
    /\ MapGet(response.before.resources, response.value.uri).name # response.input.name
    /\ MapGet(response.before.data, response.value.uri) # EmptyMap
    /\ MapGet(data, response.value.uri) = EmptyMap
    /\ \E uri \in CollectionUris(Store) \ {response.value.uri} : MapGet(data, uri) # EmptyMap

\* the last operation is a createRecord on a registered resource with an id
\* that a record of the resource already had
IsCreateOver ==
    /\ response.op = "createRecord"
    /\ MapHas(response.before.resources, response.input.uri)
    /\ "id" \in DOMAIN response.input.data
    /\ \E i \in 1..Len(MapGet(response.before.data, response.input.uri)) :
          MapGet(response.before.data, response.input.uri)[i].v.id = response.input.data.id
Stamps == {"createdAt", "updatedAt"}

\* C36: createRecord with an id that a record of the resource already has
\* does not fail; the resource holds as many records as before, under the
\* same keys in the same order; the record stored under the id is the
\* returned one and has exactly the fields of the data plus the two stamps of
\* this call, so nothing of the old record survives; the other records are
\* as they were.
C36_CreateOverExistingReplaces ==
    IsCreateOver =>
        LET collection == MapGet(data, response.input.uri)
            held == MapGet(response.before.data, response.input.uri)
            record == MapGet(collection, response.input.data.id)
        IN /\ ~response.threw
           /\ Len(collection) = Len(held)
           /\ MapKeys(collection) = MapKeys(held)
           /\ MapHas(collection, response.input.data.id)
           /\ record = response.value
           /\ DOMAIN record = DOMAIN response.input.data \cup Stamps
           /\ \A f \in DOMAIN response.input.data \ Stamps : record[f] = response.input.data[f]
           /\ record.createdAt = Timestamp /\ record.updatedAt = Timestamp
           /\ \A i \in 1..Len(held) :
                 held[i].k # response.input.data.id => collection[i] = held[i]

\* the last operation is a record write, called directly
IsRecordWrite == response.op \in {"createRecord", "updateRecord", "deleteRecord"}

\* C37: createRecord, updateRecord and deleteRecord on one resource leave
\* the record collection of every other resource as it was, also when the
\* other resource holds a record under the id that was written; the
\* registered resources are as they were.
C37_WritesStayInTheirResource ==
    IsRecordWrite =>
        /\ resources = response.before.resources
        /\ MapKeys(data) = MapKeys(response.before.data)
        /\ \A uri \in CollectionUris(response.before) \ {response.input.uri} :
              MapGet(data, uri) = MapGet(response.before.data, uri)
\* a record was deleted from one resource while the other resource held a
\* record under the same id, and still holds it
C37_Witness ==
    /\ response.op = "deleteRecord" /\ ~response.threw
    /\ ~MapHas(MapGet(data, response.input.uri), response.input.id)
    /\ \E uri \in CollectionUris(Store) \ {response.input.uri} :
          /\ MapHas(MapGet(response.before.data, uri), response.input.id)
          /\ MapHas(MapGet(data, uri), response.input.id)

\* how many entries of a listing have the name
EntriesNamed(tools, name) == Cardinality({j \in 1..Len(tools) : tools[j].name = name})

\* C38: a list-tools request repeated with no registerTool in between
\* returns the listing it returned before, and every listing holds each
\* registered tool exactly once (stated for registrations under distinct
\* names that are not built-in names).
C38_ListToolsIsRepeatable ==
    IsList =>
        /\ ~response.threw
        /\ response.value = listToolsChain(listToolsHandler(response.via)).value
        /\ DistinctDynamicNames =>
              \A i \in 1..Len(handleListTools) :
                  EntriesNamed(response.value.tools, handleListTools[i].name) = 1

\* C39: in every reachable state the URIs that have resource metadata are
\* the URIs that have a record collection, each of them once, so every URI
\* that passes validateResource has a collection.
C39_MetadataAndCollectionsAgree ==
    /\ MetadataUris(Store) = CollectionUris(Store)
    /\ NoUriTwice(MapKeys(resources)) /\ NoUriTwice(MapKeys(data))
    /\ \A uri \in PairUris : ~resourceMissing(Store, uri) => MapHas(data, uri)
\* a record was created in one of two registered resources while the other
\* held a record too
C39_Witness ==
    /\ response.op = "createRecord" /\ ~response.threw
    /\ Cardinality(MetadataUris(Store)) = 2
    /\ MapHas(MapGet(data, response.input.uri), response.value.id)
    /\ \A uri \in CollectionUris(Store) : MapGet(data, uri) # EmptyMap

====
